---------------------------- MODULE Spec2Model ----------------------------
(***************************************************************************)
(* GuajiraWindForecast: the Telegram session / router state machine        *)
(* (agents/telegram_handlers.py) and the incremental dataset store         *)
(* (src/api/dataAPI.py).                                                    *)
(*                                                                         *)
(* Text is a sequence of characters; a character is a record               *)
(*   [b |-> base letter, up |-> upper case?, acc |-> carries an accent?]   *)
(* so that str.lower(), str.strip() and the NFD accent stripping are       *)
(* computed, not assumed.                                                  *)
(***************************************************************************)
EXTENDS Integers, Sequences, FiniteSets, TLC

(***************************************************************************)
(* Bounds of the model                                                     *)
(***************************************************************************)
\* how many names of the municipality list the model carries
NumMunicipios == 2
\* how many distinct contents the weather provider can serve for one file
MaxDataVersion == 2

(***************************************************************************)
(* Text                                                                    *)
(***************************************************************************)
Ch(b) == [b |-> b, up |-> FALSE, acc |-> FALSE]

Str(s) == [i \in 1..Len(s) |-> Ch(s[i])]

\* the same text with every letter in upper case
Upper(t) == [i \in 1..Len(t) |-> [t[i] EXCEPT !.up = (t[i].b # " ")]]

\* the same text with an accent on its k-th letter
Accent(t, k) == [t EXCEPT ![k].acc = TRUE]

\* the same text with its first letter in upper case
Cap(t) == [t EXCEPT ![1].up = TRUE]

SP == Ch(" ")

IsSpace(c) == c.b = " "

\* str.lower(): accents are kept, case is dropped
lower(t) == [i \in 1..Len(t) |-> [t[i] EXCEPT !.up = FALSE]]

RECURSIVE lstrip(_)
lstrip(t) == IF t # <<>> /\ IsSpace(Head(t)) THEN lstrip(Tail(t)) ELSE t

RECURSIVE rstrip(_)
rstrip(t) ==
  IF t # <<>> /\ IsSpace(t[Len(t)]) THEN rstrip(SubSeq(t, 1, Len(t) - 1)) ELSE t

\* str.strip()
strip(t) == rstrip(lstrip(t))

\* unicodedata.normalize("NFD") followed by dropping the combining marks,
\* then lower() and strip()
strip_accents_lower(t) ==
  strip(lower([i \in 1..Len(t) |-> [t[i] EXCEPT !.acc = FALSE]]))

\* Python's  needle in hay
Contains(hay, needle) ==
  \E i \in 0..(Len(hay) - Len(needle)) :
     SubSeq(hay, i + 1, i + Len(needle)) = needle

(***************************************************************************)
(* prompts/constants.py                                                    *)
(***************************************************************************)
MUNICIPIOS_ALL ==
  << Str(<<"r","i","o","h","a","c","h","a">>),
     Str(<<"m","a","i","c","a","o">>),
     Str(<<"u","r","i","b","i","a">>),
     Str(<<"m","a","n","a","u","r","e">>),
     Str(<<"f","o","n","s","e","c","a">>),
     Str(<<"s","a","n"," ","j","u","a","n"," ","d","e","l"," ","c","e","s","a","r">>),
     Str(<<"a","l","b","a","n","i","a">>),
     Str(<<"b","a","r","r","a","n","c","a","s">>),
     Str(<<"d","i","s","t","r","a","c","c","i","o","n">>),
     Str(<<"e","l"," ","m","o","l","i","n","o">>),
     Str(<<"h","a","t","o","n","u","e","v","o">>),
     Str(<<"l","a"," ","j","a","g","u","a"," ","d","e","l"," ","p","i","l","a","r">>),
     Str(<<"m","i","n","g","u","e","o">>) >>

\* the list the model carries: the first NumMunicipios names
MUNICIPIOS == SubSeq(MUNICIPIOS_ALL, 1, NumMunicipios)

MunicipioSet == {MUNICIPIOS[i] : i \in 1..Len(MUNICIPIOS)}

riohacha == MUNICIPIOS_ALL[1]
maicao == MUNICIPIOS_ALL[2]
uribia == MUNICIPIOS_ALL[3]


(***************************************************************************)
(* State                                                                   *)
(***************************************************************************)
VARIABLES
  user_states,   \* telegram_handlers.user_states: user id -> UserState
  turn,          \* the update handled last: its inputs, the calls it made
                 \* to its collaborators and the replies it sent, in order
  clock,         \* dataAPI: the wall clock, in whole hours
  csv,           \* dataAPI: the files under DATA_DIR, file name -> rows
  op,            \* dataAPI: the operation run last and what it returned
  latest,        \* dataAPI: per row key of the last download, the value it fetched
  inodes,        \* file system: inode -> the chunks the file holds
  dir,           \* file system: the inode behind the temporary and the
                 \* final path of one city (0: no such file)
  wr,            \* per writer thread: where it is inside save_df
  rd,            \* what the reader of the final path read last
  municipio_memories,  \* MessageHandler.municipio_memories: municipality ->
                 \* the exchanges its ConversationBufferMemory holds, in order
  chat,          \* the subagent run of the update handled last, if it made one
  said,          \* every exchange a subagent run has saved so far
  router_memory, \* MessageHandler.router_memory: the exchanges the router
                 \* chain's ConversationBufferMemory holds, in order
  router_run,    \* the router run of the update handled last, if it made one
  env,           \* the credentials the process finds in its environment
  boot,          \* a bot process: its program, how far its start-up got and
                 \* the updates it has served
  plot_time,     \* PlotHandler: the wall clock in seconds, and how often the
                 \* model has let it advance
  plot_files,    \* PlotHandler: the files on disk, path -> modification time
  plot_op,       \* PlotHandler: the call made last and what it returned
  update_queue,  \* Application: the updates received and not yet dispatched
  tasks,         \* Application: the handler coroutines started so far, in
                 \* the order they were started, each with where it stands
  race,          \* dataAPI: the operations running in the server's threads,
                 \* each with where it stands for the city it works on
  chat_state,    \* analysis bot: CHAT_STATE, chat id -> its welcomed flag
  greeted        \* analysis bot: per update served, the chat, the update
                 \* and the message sent in answer

sessionVars == <<user_states, turn>>
dataVars == <<clock, csv, op, latest>>
fsVars == <<inodes, dir, wr, rd>>
chatVars == <<municipio_memories, chat, said, router_memory, router_run>>
bootVars == <<env, boot>>
plotVars == <<plot_time, plot_files, plot_op>>
dispatchVars == <<update_queue, tasks>>
welcomeVars == <<chat_state, greeted>>
raceVars == <<race>>
vars == <<user_states, turn, clock, csv, op, latest, inodes, dir, wr, rd,
          municipio_memories, chat, said, router_memory, router_run, env, boot,
          plot_time, plot_files, plot_op, update_queue, tasks,
          race, chat_state, greeted>>

\* the users of the session state machine
Users == {1}

\* Python's None, for each field type
None == <<>>
NoData == [mun |-> None, ver |-> 0]
NoAgent == [df |-> NoData]

\* UserState.__init__
UserState ==
  [ current_municipio    |-> None,
    current_data_summary |-> NoData,
    current_file_path    |-> None,
    current_dataframe    |-> NoData,
    pandas_agent         |-> NoAgent ]

\* get_user_state: the state of the user, created on first use
get_user_state(u) ==
  IF u \in DOMAIN user_states THEN user_states[u] ELSE UserState

\* a store with one session object behind every user id
Store_shared(u, s) == [v \in (DOMAIN user_states) \cup {u} |-> s]

\* the store after a handler that ran get_user_state(u) and left u's state at s
Store(u, s) == [v \in (DOMAIN user_states) \cup {u} |->
                  IF v = u THEN s ELSE user_states[v]]

(***************************************************************************)
(* Time: a moment is a whole number of hours, a date a number of days      *)
(***************************************************************************)
DateOf(h) == h \div 24
HourOf(h) == h % 24

\* datetime.now()
datetime_now == clock

\* the window the handlers download: end = now, start = now - 365 days,
\* the dates as strftime("%Y-%m-%d") gives them and the hours of both ends
\* a window with fixed business hours instead of the clock's hour
Window_business_hours(current_datetime) ==
  LET end_datetime == current_datetime
      start_datetime == current_datetime - 365 * 24
  IN  [ start_date |-> DateOf(start_datetime), end_date |-> DateOf(end_datetime),
        start_hour |-> 6, end_hour |-> 18 ]

Window(current_datetime) ==
  LET end_datetime == current_datetime
      start_datetime == current_datetime - 365 * 24
  IN  [ start_date |-> DateOf(start_datetime), end_date |-> DateOf(end_datetime),
        start_hour |-> HourOf(start_datetime), end_hour |-> HourOf(end_datetime) ]

\* the question the handlers give a subagent: the user's question, the
\* context line (municipality, the window's dates, the current time) and
\* the session's data summary
enhanced_question(user_q, m, current_datetime, summary) ==
  [ user_q |-> user_q, mun |-> m,
    start_date |-> Window(current_datetime).start_date,
    end_date |-> Window(current_datetime).end_date,
    now |-> current_datetime, summary |-> summary ]

(***************************************************************************)
(* Collaborators (external): what they can return                          *)
(***************************************************************************)
DataVersions == 1..MaxDataVersion

\* What a request to the provider can give: the request fails (network
\* error, HTTP status, unparsable body), the body has no hourly series, or
\* it holds one row per hour of every requested day, in order, carrying the
\* values (ver) the provider serves at that moment.
ProviderShapes ==
  {[exc |-> TRUE, hourly |-> FALSE],
   [exc |-> FALSE, hourly |-> FALSE],
   [exc |-> FALSE, hourly |-> TRUE]}

\* the values a response of that shape can carry
Versions(shape) == IF shape.hourly THEN DataVersions ELSE {0}

Response(shape, v) == [exc |-> shape.exc, hourly |-> shape.hourly, ver |-> v]

ProviderResponses ==
  UNION {{Response(shape, v) : v \in Versions(shape)} : shape \in ProviderShapes}

\* ClimateDataDownloader(...).download_single_city(m): a result without
\* data, a result with the path of m's file (whose content is one of the
\* provider's versions), or an unexpected exception
download_single_city(m) ==
  {[exc |-> FALSE, success |-> FALSE, file_path |-> None, ver |-> 0],
   [exc |-> TRUE,  success |-> FALSE, file_path |-> None, ver |-> 0]}
  \cup {[exc |-> FALSE, success |-> TRUE, file_path |-> m, ver |-> v] :
          v \in DataVersions}

\* dict.get(k): None when the dictionary has no key k
Get(d, k) == IF k \in DOMAIN d THEN d[k] ELSE None

\* the key under which tests/dataDownload.py lists municipality m: blanks
\* become "_" and every word but "del" starts with a capital
TitleKey(m) ==
  [i \in 1..Len(m) |->
     IF m[i].b = " " THEN Ch("_")
     ELSE IF /\ (i = 1 \/ m[i - 1].b = " ")
             /\ ~(/\ i + 2 <= Len(m)
                  /\ SubSeq(m, i, i + 2) = Str(<<"d","e","l">>)
                  /\ (i + 3 > Len(m) \/ m[i + 3].b = " "))
          THEN [m[i] EXCEPT !.up = TRUE]
          ELSE m[i]]

\* ClimateDataDownloader.municipios: the names with predefined coordinates
municipios == {TitleKey(MUNICIPIOS_ALL[i]) : i \in 1..Len(MUNICIPIOS_ALL)}

\* ClimateDataDownloader.fetch_wind_data_only: the rows of the provider's
\* response (ver stands for them), nothing when the request or its parsing
\* fails: every exception is caught there
fetch_wind_data_only(resp) == IF ~resp.exc /\ resp.hourly THEN resp.ver ELSE 0

\* ClimateDataDownloader.download_single_city(city_name) of
\* tests/dataDownload.py, called without coordinates while the provider
\* would answer resp.  asked: the provider was queried, with the predefined
\* coordinates of city_name; data: the provider had rows to return.
ClimateDataDownloader_download_single_city(city_name, resp) ==
  LET df == fetch_wind_data_only(resp) IN
  IF city_name \notin municipios
  THEN [exc |-> FALSE, success |-> FALSE, filepath |-> None, ver |-> 0,
        asked |-> FALSE, data |-> (df # 0)]
  ELSE IF df # 0
       THEN [exc |-> FALSE, success |-> TRUE, filepath |-> lower(city_name),
             ver |-> df, asked |-> TRUE, data |-> TRUE]
       ELSE [exc |-> FALSE, success |-> FALSE, filepath |-> None, ver |-> 0,
             asked |-> TRUE, data |-> FALSE]

\* what the handlers' ClimateDataDownloader(...).download_single_city(m) can
\* return: the results of the api.dataDownload module they import, or those
\* of the ClimateDataDownloader of tests/dataDownload.py
DownloadResults(m) ==
  download_single_city(m)
  \cup {ClimateDataDownloader_download_single_city(m, resp) : resp \in ProviderResponses}

\* no download was made
NoDownload == [exc |-> FALSE, success |-> FALSE]

\* an LLM chain or agent call: it answers or it fails
LLMOutcomes == {"ok", "raise"}

\* what the handlers look at in an analysis agent's answer:
\*   ind  - it contains one of the "saved a chart" indicator phrases
\*   code - extract_code finds a fenced block that uses a plotting library
\*   txt  - it has text besides that block
AgentAnswers ==
  {a \in [exc : {FALSE}, ind : BOOLEAN, code : BOOLEAN, txt : BOOLEAN] :
      ~a.code => a.txt}
  \cup {[exc |-> TRUE, ind |-> FALSE, code |-> FALSE, txt |-> FALSE]}

\* the router chain's raw output: a text, or a failure of the LLM call
RouterOutput(text) == [exc |-> FALSE, text |-> text]
RouterFailure == [exc |-> TRUE, text |-> <<>>]

Call(fn, m) == [fn |-> fn, mun |-> m]

\* a call with what it was given
CallWith(fn, m, arg) == [fn |-> fn, mun |-> m, arg |-> arg]
Reply(kind, text) == [kind |-> kind, text |-> text]

\* what one handler run leaves behind: the user's state, the router's
\* processed reply (if the router ran), the collaborator that raised (if
\* one did), the calls made and the replies sent
Outcome(s, route, calls, replies) ==
  [state |-> s, route |-> route, raw |-> None, dl |-> NoDownload,
   fault |-> "", calls |-> calls, replies |-> replies]

\* the outcome of a run in which the named collaborator raised
Raised(who, o) == [o EXCEPT !.fault = who]


(***************************************************************************)
(* PlotHandler.is_plot_request                                             *)
(***************************************************************************)
plot_keywords ==
  { Accent(Str(<<"g","r","a","f","i","c","a">>), 3),
    Str(<<"g","r","a","f","i","c","a">>),
    Accent(Str(<<"g","r","a","f","i","c","o">>), 3),
    Str(<<"g","r","a","f","i","c","o">>),
    Str(<<"p","l","o","t">>),
    Str(<<"c","h","a","r","t">>),
    Str(<<"d","i","a","g","r","a","m","a">>),
    Str(<<"h","i","s","t","o","g","r","a","m","a">>),
    Str(<<"b","o","x","p","l","o","t">>),
    Str(<<"s","c","a","t","t","e","r">>),
    Accent(Str(<<"l","i","n","e","a">>), 2),
    Str(<<"l","i","n","e","a">>),
    Str(<<"b","a","r","r","a","s">>),
    Str(<<"p","i","e">>),
    Str(<<"v","i","s","u","a","l","i","z","a","r">>),
    Str(<<"v","i","s","u","a","l","i","z","a">>),
    Str(<<"m","o","s","t","r","a","r">>),
    Str(<<"v","e","r">>),
    Str(<<"d","i","b","u","j","a","r">>),
    Str(<<"g","r","a","f","i","c","a","r">>),
    Str(<<"g","r","a","f","i","c","a","r">>),
    Str(<<"p","l","o","t","e","a","r">>),
    Str(<<"d","i","a","g","r","a","m","a","r">>) }

is_plot_request(text) == \E kw \in plot_keywords : Contains(lower(text), kw)


(***************************************************************************)
(* BaseHandler                                                             *)
(***************************************************************************)
\* create_pandas_agent_for_user: builds an agent over the current dataframe
\* only when there is a dataframe and no agent yet.  agent_ok = FALSE is an
\* exception of the constructor, which the caller's try block swallows.
create_pandas_agent_for_user(s, agent_ok) ==
  IF s.current_dataframe # NoData /\ s.pandas_agent = NoAgent /\ agent_ok
  THEN [s EXCEPT !.pandas_agent = [df |-> s.current_dataframe]]
  ELSE s

\* read_climate_data: a digest of the file, or an error text (ver 0) when
\* the file is missing or unreadable; it never raises
read_climate_data(r, csv_ok) ==
  [mun |-> r.file_path, ver |-> IF csv_ok THEN r.ver ELSE 0]

\* The block shared by municipio_callback and _handle_router_request that
\* stores a download's result in the session.
LoadDownload(s, r, csv_ok, agent_ok) ==
  IF Get(r, "success") = TRUE /\ Get(r, "file_path") # None
  THEN LET s1 == [s EXCEPT !.current_file_path = r.file_path,
                           !.current_data_summary = read_climate_data(r, csv_ok)]
       IN  IF csv_ok
           THEN create_pandas_agent_for_user(
                  [s1 EXCEPT !.current_dataframe =
                               [mun |-> r.file_path, ver |-> r.ver]],
                  agent_ok)
           ELSE s1   \* pd.read_csv raised: logged, dataframe left as it was
  ELSE s

(***************************************************************************)
(* CommandHandler / MessageHandler helpers                                 *)
(***************************************************************************)
\* a reset that forgets to drop the dataframe and the agent
reset_keeps_data(s) ==
  [s EXCEPT !.current_municipio = None,
            !.current_data_summary = NoData,
            !.current_file_path = None]

\* MessageHandler._reset_user_state
_reset_user_state(s) ==
  [s EXCEPT !.current_municipio = None,
            !.current_data_summary = NoData,
            !.current_file_path = None,
            !.current_dataframe = NoData,
            !.pandas_agent = NoAgent]

\* the municipality-switch test of handle_message
SwitchDetected(s, user_q) ==
  /\ s.current_municipio # None
  /\ \E i \in 1..Len(MUNICIPIOS) :
        /\ lower(MUNICIPIOS[i]) # lower(s.current_municipio)
        /\ Contains(lower(user_q), lower(MUNICIPIOS[i]))

\* self.subagents: one chain per name of MUNICIPIOS
subagents == MunicipioSet

\* a subagent run whose failure is not reported to the user
SubagentTurn_unreported(s, m, user_q, route, calls, replies) ==
  LET run == CallWith("subagent", m,
                      enhanced_question(user_q, m, datetime_now, s.current_data_summary))
  IN
  { IF o = "ok"
    THEN Outcome(s, route, Append(calls, run),
                 Append(replies, Reply("subagent_answer", None)))
    ELSE Raised("subagent", Outcome(s, route, Append(calls, run), replies))
      : o \in LLMOutcomes }

\* a subagent run over the user's question and the context of the moment,
\* and the reply that relays its answer; a failure of the chain leaves
\* through the handler's except clause
SubagentTurn(s, m, user_q, route, calls, replies) ==
  LET run == CallWith("subagent", m,
                      enhanced_question(user_q, m, datetime_now, s.current_data_summary))
  IN
  { IF o = "ok"
    THEN Outcome(s, route, Append(calls, run),
                 Append(replies, Reply("subagent_answer", None)))
    ELSE Raised("subagent",
                Outcome(s, route, Append(calls, run),
                        Append(replies, Reply("error", None))))
      : o \in LLMOutcomes }


(***************************************************************************)
(* MessageHandler._handle_router_request                                   *)
(***************************************************************************)
\* .strip().lower() of the router chain's output
RouteOf(ro) == lower(strip(ro.text))

\* a router request that runs the subagent only over downloaded data
_handle_router_request_needs_data(s, user_q, ro) ==
  IF ro.exc
  THEN {Raised("router",
               Outcome(s, None, <<Call("router", None)>>, <<Reply("error", None)>>))}
  ELSE
  LET route == RouteOf(ro) IN
  IF route \in MunicipioSet
  THEN LET s1 == [s EXCEPT !.current_municipio = route]
           calls == <<Call("router", None),
                      CallWith("download", route, Window(datetime_now))>>
           replies == <<Reply("downloading", None)>>
       IN  UNION { { [o EXCEPT !.dl = r] : o \in
                     IF r.exc
                     THEN {Raised("download",
                                  Outcome(s1, route, calls,
                                          Append(replies, Reply("error", None))))}
                     ELSE IF Get(r, "success") # TRUE
                     THEN {Outcome(s1, route, calls,
                                   Append(replies, Reply("selected_nodata", None)))}
                     ELSE UNION { SubagentTurn(LoadDownload(s1, r, csv_ok, agent_ok),
                                               route, user_q, route, calls, replies)
                                  : csv_ok \in BOOLEAN, agent_ok \in BOOLEAN } }
                   : r \in DownloadResults(route) }
  ELSE {Outcome(s, route, <<Call("router", None)>>, <<Reply("relay", route)>>)}

_handle_router_request(s, user_q, ro) ==
  IF ro.exc
  THEN {Raised("router",
               Outcome(s, None, <<Call("router", None)>>, <<Reply("error", None)>>))}
  ELSE
  LET route == RouteOf(ro) IN
  IF route \in MunicipioSet
  THEN LET s1 == [s EXCEPT !.current_municipio = route]
           calls == <<Call("router", None),
                      CallWith("download", route, Window(datetime_now))>>
           replies == <<Reply("downloading", None)>>
       IN  UNION { { [o EXCEPT !.dl = r] : o \in
                     IF r.exc
                     THEN {Raised("download",
                                  Outcome(s1, route, calls,
                                          Append(replies, Reply("error", None))))}
                     ELSE UNION { IF route \in subagents
                                  THEN SubagentTurn(LoadDownload(s1, r, csv_ok, agent_ok),
                                                    route, user_q, route, calls, replies)
                                  ELSE {Outcome(LoadDownload(s1, r, csv_ok, agent_ok),
                                                route, calls,
                                                Append(replies, Reply("subagent_missing", None)))}
                                  : csv_ok \in BOOLEAN, agent_ok \in BOOLEAN } }
                   : r \in DownloadResults(route) }
  ELSE {Outcome(s, route, <<Call("router", None)>>, <<Reply("relay", route)>>)}

(***************************************************************************)
(* MessageHandler._handle_plot_request                                     *)
(***************************************************************************)
\* an execution whose failure is swallowed without a reply
ExecuteAndSend_silent(s, calls, replies) ==
  { IF exec_ok
    THEN Outcome(s, None, Append(calls, Call("execute_plot_code", None)),
                 Append(replies, Reply("photo", None)))
    ELSE Raised("execute_plot_code",
                Outcome(s, None, Append(calls, Call("execute_plot_code", None)), replies))
      : exec_ok \in BOOLEAN }

\* execute_plot_code followed by send_plot; a failing execution leaves
\* through the except clause of the plot request
ExecuteAndSend(s, calls, replies) ==
  { IF exec_ok
    THEN Outcome(s, None, Append(calls, Call("execute_plot_code", None)),
                 Append(replies, Reply("photo", None)))
    ELSE Raised("execute_plot_code",
                Outcome(s, None, Append(calls, Call("execute_plot_code", None)),
                        Append(replies, Reply("plot_error", None))))
      : exec_ok \in BOOLEAN }

\* a plot request that asks the agent a second time whatever the first
\* answer held
_handle_plot_request_asks_again(s) ==
  LET m == s.current_municipio
      replies == <<Reply("generating", None)>>
  IN UNION {
       LET calls == <<CallWith("agent", m, a1)>> IN
       IF a1.exc
       THEN {Raised("agent",
                    Outcome(s, None, calls, Append(replies, Reply("plot_error", None))))}
       ELSE
       UNION {
         IF a2.exc
         THEN {Raised("agent",
                      Outcome(s, None, Append(calls, CallWith("agent", m, a2)),
                              Append(replies, Reply("plot_error", None))))}
         ELSE IF a2.code
         THEN ExecuteAndSend(s, Append(calls, CallWith("agent", m, a2)), replies)
         ELSE {Outcome(s, None, Append(calls, CallWith("agent", m, a2)),
                       Append(replies, Reply("agent_answer", None)))}
         : a2 \in AgentAnswers }
       : a1 \in AgentAnswers }

\* the agent's answer, then: a recent artifact if the answer says a chart
\* was saved and find_recent_plots finds one; else the code of the answer,
\* run; else one more answer, asked for code, and its code, run
_handle_plot_request(s) ==
  LET m == s.current_municipio
      replies == <<Reply("generating", None)>>
  IN UNION {
       LET calls == <<CallWith("agent", m, a1)>> IN
       IF a1.exc
       THEN {Raised("agent",
                    Outcome(s, None, calls, Append(replies, Reply("plot_error", None))))}
       ELSE
       LET \* what follows when no recent artifact was sent
           afterInd(cs) ==
               IF a1.code
               THEN ExecuteAndSend(s, cs, replies)
               ELSE UNION {
                      IF a2.exc
                      THEN {Raised("agent",
                                   Outcome(s, None, Append(cs, CallWith("agent", m, a2)),
                                           Append(replies, Reply("plot_error", None))))}
                      ELSE IF a2.code
                      THEN ExecuteAndSend(s, Append(cs, CallWith("agent", m, a2)), replies)
                      ELSE {Outcome(s, None, Append(cs, CallWith("agent", m, a2)),
                                    Append(replies, Reply("agent_answer", None)))}
                      : a2 \in AgentAnswers }
       IN IF a1.ind
          THEN {Outcome(s, None, Append(calls, CallWith("find_recent_plots", None, TRUE)),
                        Append(replies, Reply("photo", None)))}
               \cup afterInd(Append(calls, CallWith("find_recent_plots", None, FALSE)))
          ELSE afterInd(calls)
       : a1 \in AgentAnswers }


(***************************************************************************)
(* MessageHandler._handle_pandas_analysis                                  *)
(***************************************************************************)
_handle_pandas_analysis(s) ==
  LET m == s.current_municipio
      replies == <<Reply("analyzing", None)>>
  IN UNION {
       LET calls == <<CallWith("agent", m, a)>> IN
       IF a.exc
       THEN {Raised("agent",
                    Outcome(s, None, calls, Append(replies, Reply("analysis_error", None))))}
       ELSE
       LET afterInd(cs) ==
             IF a.code
             THEN { \* the code ran: the chart, then the answer without the code
                    Outcome(s, None, Append(cs, Call("execute_plot_code", None)),
                            IF a.txt
                            THEN replies \o <<Reply("photo", None), Reply("agent_answer", None)>>
                            ELSE Append(replies, Reply("photo", None))),
                    \* the code failed: logged, the textual answer is sent
                    Raised("execute_plot_code",
                           Outcome(s, None, Append(cs, Call("execute_plot_code", None)),
                                   Append(replies, Reply("agent_answer", None)))) }
             ELSE {Outcome(s, None, cs, Append(replies, Reply("agent_answer", None)))}
       IN IF a.ind
          THEN {Outcome(s, None, Append(calls, CallWith("find_recent_plots", None, TRUE)),
                        replies \o <<Reply("photo", None), Reply("agent_answer", None)>>)}
               \cup afterInd(Append(calls, CallWith("find_recent_plots", None, FALSE)))
          ELSE afterInd(calls)
       : a \in AgentAnswers }

(***************************************************************************)
(* MessageHandler._handle_municipio_request                                *)
(***************************************************************************)
\* a dispatch that asks for the dataset only, not for the agent
_handle_municipio_request_data_only(s, user_q) ==
  IF s.current_dataframe # NoData
  THEN IF is_plot_request(user_q)
       THEN _handle_plot_request(s)
       ELSE _handle_pandas_analysis(s)
  ELSE IF s.current_municipio \in subagents
       THEN SubagentTurn(s, s.current_municipio, user_q, None, <<>>, <<>>)
       ELSE {Outcome(s, None, <<>>, <<Reply("subagent_missing", None)>>)}

_handle_municipio_request(s, user_q) ==
  IF s.current_dataframe # NoData /\ s.pandas_agent # NoAgent
  THEN IF is_plot_request(user_q)
       THEN _handle_plot_request(s)
       ELSE _handle_pandas_analysis(s)
  ELSE IF s.current_municipio \in subagents
       THEN SubagentTurn(s, s.current_municipio, user_q, None, <<>>, <<>>)
       ELSE {Outcome(s, None, <<>>, <<Reply("subagent_missing", None)>>)}

(***************************************************************************)
(* MessageHandler.handle_message                                           *)
(***************************************************************************)
\* the outcomes of one free-text update with the given text, for a user
\* whose state is s; ros is what the router chain may answer
handle_message(s, text, ros) ==
  LET user_q == strip(text) IN
  IF user_q = <<>>
  THEN {Outcome(s, None, <<>>, <<>>)}
  ELSE IF SwitchDetected(s, user_q)
  THEN {Outcome(_reset_user_state(s), None, <<>>, <<Reply("switch_detected", None)>>)}
  ELSE IF s.current_municipio = None
  THEN UNION { {[o EXCEPT !.raw = ro.text] : o \in _handle_router_request(s, user_q, ro)}
               : ro \in ros }
  ELSE _handle_municipio_request(s, user_q)

(***************************************************************************)
(* CommandHandler.cambiar_command                                          *)
(***************************************************************************)
\* a /cambiar that forgets to drop the analysis agent
cambiar_keeps_agent(s) ==
  Outcome([s EXCEPT !.current_municipio = None,
                    !.current_data_summary = NoData,
                    !.current_file_path = None,
                    !.current_dataframe = NoData],
          None, <<>>, <<Reply("cambiar", None)>>)

cambiar_command(s) ==
  Outcome([s EXCEPT !.current_municipio = None,
                    !.current_data_summary = NoData,
                    !.current_file_path = None,
                    !.current_dataframe = NoData,
                    !.pandas_agent = NoAgent],
          None, <<>>, <<Reply("cambiar", None)>>)

(***************************************************************************)
(* CallbackHandler.municipio_callback                                      *)
(***************************************************************************)
\* a callback that binds the session before it validates the identifier
municipio_callback_binds_first(s, municipio) ==
  {Outcome([s EXCEPT !.current_municipio = municipio], None, <<>>,
           <<Reply("invalid", None)>>)}

\* municipio is query.data without its "municipio_" prefix
municipio_callback(s, municipio) ==
  IF municipio \notin MunicipioSet
  THEN {Outcome(s, None, <<>>, <<Reply("invalid", None)>>)}
  ELSE
  LET s1 == [s EXCEPT !.current_municipio = municipio]
      calls == <<CallWith("download", municipio, Window(datetime_now))>>
      replies == <<Reply("downloading", None)>>
  IN UNION { { [o EXCEPT !.dl = r] : o \in
               IF r.exc
               THEN {Raised("download",
                            Outcome(s1, None, calls,
                                    Append(replies, Reply("download_error", None))))}
               ELSE IF Get(r, "success") = TRUE /\ Get(r, "file_path") # None
               THEN { Outcome(LoadDownload(s1, r, csv_ok, agent_ok), None, calls,
                              Append(replies, Reply("selected", None)))
                      : csv_ok \in BOOLEAN, agent_ok \in BOOLEAN }
               ELSE {Outcome(s1, None, calls, Append(replies, Reply("selected_nodata", None)))} }
             : r \in DownloadResults(municipio) }

(***************************************************************************)
(* save_df and load_existing at the level of the file system               *)
(*                                                                         *)
(* Threads that save the same city's file at the same time: the           *)
(* scheduler's job (scheduled_update -> incremental_pull -> save_df) and   *)
(* request handlers (update_hourly, download_single, download_bulk), which *)
(* FastAPI runs in a thread pool.  All of them use the same temporary      *)
(* path, csv_path(city).with_suffix(".tmp.csv").                           *)
(***************************************************************************)
\* how many writes df.to_csv needs for one file
MaxChunks == 2

Writers == {"scheduled_update", "download_single"}

Inodes == 1..(2 + Cardinality(Writers))

Hole == "hole"

\* a file as one complete to_csv of some writer left it
Complete(content) ==
  /\ Len(content) = MaxChunks
  /\ \E w \in Writers : \A i \in 1..MaxChunks : content[i] = w

\* the inodes no path and no open handle refers to
Free == {i \in Inodes : /\ dir.tmp # i
                        /\ dir.final # i
                        /\ \A w \in Writers : wr[w].fd # i}

\* the file system forgets the content of an inode nothing refers to
Collect(ino, d, h) ==
  [i \in Inodes |->
     IF d.tmp = i \/ d.final = i \/ (\E w \in Writers : h[w].fd = i)
     THEN ino[i] ELSE <<>>]

\* the content after writing cell c at offset k (1-based); a write past the
\* end leaves a hole
WriteAt(content, k, c) ==
  [i \in 1..(IF k > Len(content) THEN k ELSE Len(content)) |->
     IF i = k THEN c ELSE IF i <= Len(content) THEN content[i] ELSE Hole]

FsInit ==
  /\ inodes = [i \in Inodes |-> <<>>]
  /\ dir = [tmp |-> 0, final |-> 0]
  /\ wr = [w \in Writers |-> [pc |-> "idle", fd |-> 0, n |-> 0, failed |-> FALSE]]
  /\ rd = [done |-> FALSE, exists |-> FALSE, content |-> <<>>]

\* save_df, df.to_csv(tmp): open the temporary path for writing, which
\* truncates the file if it exists and creates it otherwise
OpenTmp(w) ==
  /\ wr[w].pc = "idle"
  /\ IF dir.tmp # 0
     THEN /\ inodes' = [inodes EXCEPT ![dir.tmp] = <<>>]
          /\ wr' = [wr EXCEPT ![w] = [pc |-> "writing", fd |-> dir.tmp, n |-> 0,
                                      failed |-> FALSE]]
          /\ UNCHANGED dir
     ELSE \E i \in Free :
            /\ \A j \in Free : i <= j
            /\ inodes' = [inodes EXCEPT ![i] = <<>>]
            /\ dir' = [dir EXCEPT !.tmp = i]
            /\ wr' = [wr EXCEPT ![w] = [pc |-> "writing", fd |-> i, n |-> 0,
                                        failed |-> FALSE]]
  /\ UNCHANGED <<rd, sessionVars, dataVars, chatVars, bootVars, plotVars, dispatchVars, raceVars, welcomeVars>>

\* df.to_csv(tmp): one more chunk goes through the writer's handle
WriteChunk(w) ==
  /\ wr[w].pc = "writing"
  /\ wr[w].n < MaxChunks
  /\ inodes' = [inodes EXCEPT ![wr[w].fd] = WriteAt(@, wr[w].n + 1, w)]
  /\ wr' = [wr EXCEPT ![w].n = @ + 1]
  /\ UNCHANGED <<dir, rd, sessionVars, dataVars, chatVars, bootVars, plotVars, dispatchVars, raceVars, welcomeVars>>

\* df.to_csv(tmp) returns: the handle is closed
CloseTmp(w) ==
  /\ wr[w].pc = "writing"
  /\ wr[w].n = MaxChunks
  /\ wr' = [wr EXCEPT ![w].pc = "written", ![w].fd = 0]
  /\ inodes' = Collect(inodes, dir, wr')
  /\ UNCHANGED <<dir, rd, sessionVars, dataVars, chatVars, bootVars, plotVars, dispatchVars, raceVars, welcomeVars>>

\* shutil.move(tmp, path): rename the temporary path over the final one;
\* FileNotFoundError if another thread has moved the temporary file away
MoveTmp(w) ==
  /\ wr[w].pc = "written"
  /\ IF dir.tmp # 0
     THEN /\ dir' = [tmp |-> 0, final |-> dir.tmp]
          /\ wr' = [wr EXCEPT ![w].pc = "idle"]
     ELSE /\ wr' = [wr EXCEPT ![w].pc = "idle", ![w].failed = TRUE]
          /\ UNCHANGED dir
  /\ inodes' = Collect(inodes, dir', wr')
  /\ UNCHANGED <<rd, sessionVars, dataVars, chatVars, bootVars, plotVars, dispatchVars, raceVars, welcomeVars>>

\* load_existing (also behind /stats): path.exists(), then pd.read_csv(path)
ReadFinal ==
  /\ rd' = [done |-> TRUE, exists |-> dir.final # 0,
            content |-> IF dir.final # 0 THEN inodes[dir.final] ELSE <<>>]
  /\ UNCHANGED <<inodes, dir, wr, sessionVars, dataVars, chatVars, bootVars, plotVars, dispatchVars, raceVars, welcomeVars>>

NextFs ==
  \/ \E w \in Writers : OpenTmp(w)
  \/ \E w \in Writers : WriteChunk(w)
  \/ \E w \in Writers : CloseTmp(w)
  \/ \E w \in Writers : MoveTmp(w)
  \/ ReadFinal

(***************************************************************************)
(* Inputs                                                                  *)
(***************************************************************************)
hola == Str(<<"h","o","l","a">>)
general == Str(<<"g","e","n","e","r","a","l">>)

\* free-text messages
UserTexts ==
  { hola,
    <<SP>>,
    Str(<<"p","l","o","t">>),
    riohacha,
    Accent(riohacha, 2),
    Cap(maicao) \o <<SP>>,
    maicao \o <<SP>> \o Upper(riohacha),
    Upper(uribia) }

\* raw outputs of the router chain
RouterOutputs ==
  { RouterFailure,
    RouterOutput(riohacha),
    RouterOutput(<<SP>> \o Cap(riohacha) \o <<SP>>),
    RouterOutput(Accent(Cap(riohacha), 2)),
    RouterOutput(maicao),
    RouterOutput(Upper(uribia)),
    RouterOutput(general),
    RouterOutput(Cap(general)),
    RouterOutput(hola),
    RouterOutput(Cap(hola) \o <<SP>>) }

\* municipality tokens carried by button callbacks
CallbackData == MunicipioSet \cup {Cap(riohacha), Str(<<"x">>)}


(***************************************************************************)
(* src/api/dataAPI.py: utilities                                           *)
(*                                                                         *)
(* A timestamp is a whole number of hours; a date is a number of days.     *)
(* A row of a dataset is [municipio, datetime, val]: val stands for the    *)
(* meteorological columns of the row.                                      *)
(***************************************************************************)
\* city.strip().lower().replace(" ", "_")
parse_city(city) ==
  LET t == lower(strip(city))
  IN  [i \in 1..Len(t) |-> IF t[i].b = " " THEN [t[i] EXCEPT !.b = "_"] ELSE t[i]]

\* the 13 keys of the MUNICIPIOS dictionary of dataAPI.py
API_MUNICIPIOS_ALL == {parse_city(MUNICIPIOS_ALL[i]) : i \in 1..Len(MUNICIPIOS_ALL)}

\* list(MUNICIPIOS.keys()), in the dictionary's order; the model carries
\* the first two keys
API_MUNICIPIOS_LIST == <<parse_city(MUNICIPIOS_ALL[1]), parse_city(MUNICIPIOS_ALL[2])>>

API_MUNICIPIOS == {API_MUNICIPIOS_LIST[i] : i \in 1..Len(API_MUNICIPIOS_LIST)}

\* csv_path: the file of a city (DATA_DIR/open_meteo_<city_norm>.csv)
csv_path(city) == parse_city(city)

\* load_existing: the rows of the city's file, none if there is no file
load_existing(files, city) ==
  IF csv_path(city) \in DOMAIN files THEN files[csv_path(city)] ELSE <<>>

RowKey(r) == <<r.municipio, r.datetime>>

\* the keys of the rows of df
Keys(df) == {RowKey(df[i]) : i \in 1..Len(df)}

Remove(s, i) == SubSeq(s, 1, i - 1) \o SubSeq(s, i + 1, Len(s))

\* DataFrame.sort_values("datetime"): pandas sorts with its default
\* kind="quicksort", which is not stable, so rows with equal datetime may
\* come out in any order.  The set of orders the sort can produce.
RECURSIVE sort_values(_)
sort_values(df) ==
  IF df = <<>> THEN {<<>>}
  ELSE LET first == {i \in 1..Len(df) :
                       \A j \in 1..Len(df) : df[i].datetime <= df[j].datetime}
       IN  UNION { {<<df[i]>> \o rest : rest \in sort_values(Remove(df, i))}
                   : i \in first }

SelectIdx(df, keep) ==
  LET indexed == [i \in 1..Len(df) |-> <<i, df[i]>>]
      kept == SelectSeq(indexed, LAMBDA p : p[1] \in keep)
  IN  [k \in 1..Len(kept) |-> kept[k][2]]

\* a drop_duplicates that drops nothing
drop_duplicates_none(df) == df

\* DataFrame.drop_duplicates(subset=["municipio","datetime"], keep="last")
drop_duplicates(df) ==
  SelectIdx(df, {i \in 1..Len(df) :
                   \A j \in (i + 1)..Len(df) : RowKey(df[j]) # RowKey(df[i])})

\* save_df: the directory after saving df as the city's file, one per order
\* the sort can produce; an empty frame is not written
save_df(files, df, city) ==
  IF df = <<>> THEN {files}
  ELSE { [f \in (DOMAIN files) \cup {csv_path(city)} |->
            IF f = csv_path(city) THEN drop_duplicates(sorted) ELSE files[f]]
         : sorted \in sort_values(df) }

\* normalize_df: the derived columns; hour and date are functions of
\* datetime (HourOf, DateOf), municipio is the parsed city
normalize_df(raw, city) ==
  LET municipio == parse_city(city) IN
  [i \in 1..Len(raw) |->
     [municipio |-> municipio, datetime |-> raw[i].datetime, val |-> raw[i].val]]

\* filter_hours
filter_hours(df, start_hour, end_hour) ==
  SelectIdx(df, {i \in 1..Len(df) :
                   HourOf(df[i].datetime) >= start_hour /\ HourOf(df[i].datetime) <= end_hour})

NoTs == -1

\* last_timestamp: the largest datetime, None (NoTs) for an empty frame
last_timestamp(df) ==
  IF df = <<>> THEN NoTs
  ELSE CHOOSE t \in {df[i].datetime : i \in 1..Len(df)} :
         \A i \in 1..Len(df) : df[i].datetime <= t

Min(a, b) == IF a <= b THEN a ELSE b

(***************************************************************************)
(* The weather provider                                                    *)
(***************************************************************************)
HourlySeries(start_date, end_date, v) ==
  [i \in 1..(IF end_date >= start_date THEN (end_date - start_date + 1) * 24 ELSE 0) |->
     [datetime |-> start_date * 24 + (i - 1), val |-> v]]

\* the frame fetch_archive(lat, lon, start_date, end_date, fields) builds
\* from a response that did not fail
fetch_archive(resp, start_date, end_date) ==
  IF resp.hourly THEN HourlySeries(start_date, end_date, resp.ver) ELSE <<>>

\* the frame fetch_forecast(lat, lon, fields, past_days=3, forecast_days=1)
\* builds: the three days before today and today
fetch_forecast(resp, now) ==
  IF resp.hourly THEN HourlySeries(DateOf(now) - 3, DateOf(now), resp.ver) ELSE <<>>

\* DataFrame.empty of a fetched frame, without building it
FetchedEmpty(resp, start_date, end_date) == ~resp.hourly \/ end_date < start_date

(***************************************************************************)
(* incremental_pull                                                        *)
(***************************************************************************)
\* pd.to_datetime of the provider's local-time strings gives tz-naive
\* timestamps; TZ.localize(...) and now_tz() give tz-aware ones
SeriesTzAware == FALSE
BoundsTzAware == TRUE

\* pandas orders (>=, <=) a datetime series against a datetime only when
\* both are naive or both aware; otherwise the comparison raises TypeError
CompareRaises(seriesAware, boundAware) == seriesAware # boundAware

\* the rows of df in [start_dt, target_until]
RangeMask(df, start_dt, target_until) ==
  SelectIdx(df, {i \in 1..Len(df) :
                   df[i].datetime >= start_dt /\ df[i].datetime <= target_until})

\* what one incremental_pull leaves: exc, it raised (fetch_failed: in a
\* fetch); archive, the archive request it made; window, the range of
\* timestamps it accepts; fresh, how many of the fetched keys the prior
\* dataset did not have; refetch, every fetched row was a row of the prior
\* dataset already
PullResult(exc, fetch_failed, files, new_rows, archive, window, fetched, fresh, refetch) ==
  [ exc |-> exc, fetch_failed |-> fetch_failed, files |-> files,
    new_rows |-> new_rows, archive |-> archive, window |-> window,
    fetched |-> fetched, fresh |-> fresh, refetch |-> refetch ]

\* the hours of the rows a fetch over the days start_date..end_date gives
FetchedHours(resp, start_date, end_date) ==
  IF resp.hourly /\ end_date >= start_date
  THEN (start_date * 24)..(end_date * 24 + 23)
  ELSE {}

\* the hours among `hours` of the window [start_dt, target_until] and of
\* the hours of the day asked for
WindowHours(hours, start_dt, target_until, start_hour, end_hour) ==
  {h \in hours : /\ h >= start_dt
                 /\ h <= target_until
                 /\ HourOf(h) >= start_hour
                 /\ HourOf(h) <= end_hour}

\* how many of the fetched keys (city_norm, h), h in hours, the dataset
\* existing does not have
FreshKeys(hours, existing, city_norm) ==
  Cardinality({h \in hours : <<city_norm, h>> \notin Keys(existing)})

\* the rows of df, as a set
Rows(df) == {df[i] : i \in 1..Len(df)}

\* the fetched rows of the city for the hours harch (archive, values va)
\* and hfore (forecast, values vf)
FetchedRows(city_norm, harch, va, hfore, vf) ==
  {[municipio |-> city_norm, datetime |-> h, val |-> va] : h \in harch}
  \cup {[municipio |-> city_norm, datetime |-> h, val |-> vf] : h \in hfore}

\* the date the fetch starts at: a week before now without prior data,
\* else the date of the hour after the last stored timestamp
FetchStart(last_ts, now) ==
  IF last_ts = NoTs THEN DateOf(now - 7 * 24) ELSE DateOf(last_ts + 1)

\* the archive request: made only when the window reaches yesterday, and
\* then up to yesterday at most
ArchiveRequest_strict(start_date, yesterday, end_date) ==
  IF start_date < yesterday
  THEN [called |-> TRUE, start_date |-> start_date,
        end_date |-> Min(yesterday, end_date)]
  ELSE [called |-> FALSE, start_date |-> 0, end_date |-> 0]

ArchiveRequest(start_date, yesterday, end_date) ==
  IF start_date <= yesterday
  THEN [called |-> TRUE, start_date |-> start_date,
        end_date |-> Min(yesterday, end_date)]
  ELSE [called |-> FALSE, start_date |-> 0, end_date |-> 0]

\* the upper comparison of the range mask turned round: the rows from
\* target_until on are the ones merged
MaskAndMerge_reversed(files, existing, city_norm, df_all, start_dt, target_until, start_hour, end_hour) ==
  LET new == filter_hours(
               normalize_df(
                 SelectIdx(df_all, {i \in 1..Len(df_all) :
                                      /\ df_all[i].datetime >= start_dt
                                      /\ df_all[i].datetime >= target_until}),
                 city_norm),
               start_hour, end_hour)
      merged == drop_duplicates(existing \o new)
  IN  { [exc |-> FALSE, files |-> fs, new_rows |-> Len(merged) - Len(existing),
         fetched |-> new]
        : fs \in save_df(files, merged, city_norm) }

\* a non-empty df_all: the rows of [start_dt, target_until] and of the hours
\* asked for are merged into the prior dataset and saved; the range mask
\* raises when the series and the bounds differ in tz-awareness, and then
\* nothing is merged or saved
MaskAndMerge(files, existing, city_norm, df_all, start_dt, target_until, start_hour, end_hour) ==
  IF CompareRaises(SeriesTzAware, BoundsTzAware)
  THEN {[exc |-> TRUE, files |-> files, new_rows |-> 0, fetched |-> <<>>]}
  ELSE LET new == filter_hours(
                    normalize_df(RangeMask(df_all, start_dt, target_until), city_norm),
                    start_hour, end_hour)
           merged == drop_duplicates(existing \o new)
       IN  { [exc |-> FALSE, files |-> fs, new_rows |-> Len(merged) - Len(existing),
              fetched |-> new]
             : fs \in save_df(files, merged, city_norm) }

\* the possible results of incremental_pull(city, lat, lon, start_hour,
\* end_hour) run at hour `now` over the directory `files`
incremental_pull(files, city, now, start_hour, end_hour) ==
  LET city_norm == parse_city(city)
      existing == load_existing(files, city_norm)
      last_ts == last_timestamp(existing)
      target_until == now             \* to_hour_floor(now_local)
      start_date == FetchStart(last_ts, now)
      end_date == DateOf(target_until)
      yesterday == DateOf(now - 24)
      archive == ArchiveRequest(start_date, yesterday, end_date)
      today == DateOf(now)
      \* start of the day start_date, localized
      start_dt == start_date * 24
      window == [ last_ts |-> last_ts, start_date |-> start_date,
                  yesterday |-> yesterday, end_date |-> end_date,
                  start_dt |-> start_dt, target_until |-> target_until ]
  IN UNION {
       IF a.exc
       THEN {PullResult(TRUE, TRUE, files, 0, archive, window, <<>>, 0, FALSE)}
       ELSE UNION {
         IF f.exc
         THEN {PullResult(TRUE, TRUE, files, 0, archive, window, <<>>, 0, FALSE)}
         ELSE
         IF /\ FetchedEmpty(a, archive.start_date, archive.end_date)
            /\ FetchedEmpty(f, today - 3, today)
         THEN \* df_all.empty: merged = existing, new_rows = 0, then
              \* save_df(merged, city_norm)
              {PullResult(FALSE, FALSE, fs, 0, archive, window, <<>>, 0, FALSE)
                 : fs \in save_df(files, existing, city_norm)}
         ELSE
         LET harch == WindowHours(
                        FetchedHours(a, archive.start_date, archive.end_date),
                        start_dt, target_until, start_hour, end_hour)
             hfore == WindowHours(FetchedHours(f, today - 3, today),
                                  start_dt, target_until, start_hour, end_hour)
             fresh == FreshKeys(harch \cup hfore, existing, city_norm)
             refetch(va, vf) ==
               /\ harch \cup hfore # {}
               /\ FetchedRows(city_norm, harch, va, hfore, vf) \subseteq Rows(existing)
             df_all(va, vf) ==
               fetch_archive(Response(a, va), archive.start_date, archive.end_date)
                 \o fetch_forecast(Response(f, vf), now)
         IN UNION {
              { PullResult(m.exc, FALSE, m.files, m.new_rows, archive, window,
                           m.fetched, fresh, refetch(va, vf))
                : m \in MaskAndMerge(files, existing, city_norm, df_all(va, vf),
                                     start_dt, target_until, start_hour, end_hour) }
              : va \in Versions(a), vf \in Versions(f) }
         : f \in ProviderShapes }
       \* the archive is asked only when the window reaches yesterday
       : a \in IF archive.called THEN ProviderShapes
               ELSE {[exc |-> FALSE, hourly |-> FALSE]} }

(***************************************************************************)
(* /download/single and /download/bulk                                     *)
(***************************************************************************)
NoDate == -1

\* the try block shared by download_single and download_bulk: fetch the
\* archive, normalise, filter, and save the city's file with the new rows
\* appended
FetchAndSave(files, city_norm, start_date, end_date, start_hour, end_hour) ==
  UNION {
    IF r.exc
    THEN {[exc |-> TRUE, df |-> <<>>, files |-> files]}
    ELSE LET df == filter_hours(
                     normalize_df(fetch_archive(r, start_date, end_date), city_norm),
                     start_hour, end_hour)
         IN  IF df = <<>>
             THEN {[exc |-> FALSE, df |-> <<>>, files |-> files]}
             ELSE {[exc |-> FALSE, df |-> df, files |-> fs]
                     : fs \in save_df(files, load_existing(files, city_norm) \o df,
                                      city_norm)}
    : r \in ProviderResponses }

DefaultStart(d, now) == IF d = NoDate THEN DateOf(now - 7 * 24) ELSE d
DefaultEnd(d, now) == IF d = NoDate THEN DateOf(now) ELSE d

Entry(city, success, raised, fetch_failed, new_rows) ==
  [ city |-> city, success |-> success, raised |-> raised,
    fetch_failed |-> fetch_failed, new_rows |-> new_rows ]

\* the entry of one incremental_pull, with the size of the dataset it
\* started from (prior), of the one it left (merged), the number of
\* fetched keys the prior dataset did not have (fresh), whether the fetched
\* rows were rows of the prior dataset (refetch) and whether the dataset
\* it left is the prior one (kept)
PullEntry(c, r, existing) ==
  [ city |-> c, success |-> ~r.exc, raised |-> r.exc,
    fetch_failed |-> r.fetch_failed, new_rows |-> r.new_rows,
    prior |-> Len(existing), merged |-> Len(load_existing(r.files, c)),
    fresh |-> r.fresh, refetch |-> r.refetch,
    kept |-> (load_existing(r.files, c) = existing),
    archive |-> r.archive, window |-> r.window,
    added |-> {row \in Rows(load_existing(r.files, c)) : row \notin Rows(existing)} ]

\* download_single(req) at hour now: the directory it leaves, the rows it
\* fetched and its HTTP status
download_single(files, now, req) ==
  LET city_norm == parse_city(req.city) IN
  IF ~req.coords /\ city_norm \notin API_MUNICIPIOS
  THEN {[status |-> 400, df |-> <<>>, files |-> files]}
  ELSE { [status |-> IF d.exc THEN 500 ELSE 200, df |-> d.df, files |-> d.files]
         : d \in FetchAndSave(files, city_norm,
                              DefaultStart(req.start_date, now),
                              DefaultEnd(req.end_date, now),
                              req.start_hour, req.end_hour) }

\* the loop of download_bulk over the remaining cities
RECURSIVE bulk_loop(_, _, _, _, _, _)
bulk_loop(cities, files, out, fetched, now, req) ==
  IF cities = <<>>
  THEN {[files |-> files, out |-> out, df |-> fetched]}
  ELSE LET city_norm == parse_city(Head(cities)) IN
       IF city_norm \notin API_MUNICIPIOS
       THEN bulk_loop(Tail(cities), files,
                      Append(out, Entry(city_norm, FALSE, FALSE, FALSE, 0)),
                      fetched, now, req)
       ELSE UNION {
              bulk_loop(Tail(cities), d.files,
                        Append(out, Entry(city_norm, ~d.exc, FALSE, d.exc, Len(d.df))),
                        fetched \o d.df, now, req)
              : d \in FetchAndSave(files, city_norm,
                                   DefaultStart(req.start_date, now),
                                   DefaultEnd(req.end_date, now),
                                   req.start_hour, req.end_hour) }

download_bulk(files, now, req) ==
  bulk_loop(IF req.cities = <<>> THEN API_MUNICIPIOS_LIST ELSE req.cities,
            files, <<>>, <<>>, now, req)

(***************************************************************************)
(* /update/hourly and the scheduler                                        *)
(***************************************************************************)
\* the loop of update_hourly (report = TRUE) and of scheduled_update
\* (report = FALSE) over the remaining cities: each incremental_pull runs
\* inside a try block
RECURSIVE pull_loop(_, _, _, _, _, _, _)
pull_loop(cities, files, results, now, start_hour, end_hour, report) ==
  IF cities = <<>>
  THEN {[files |-> files, out |-> results, df |-> <<>>]}
  ELSE LET c == Head(cities) IN
       IF report /\ c \notin API_MUNICIPIOS
       THEN pull_loop(Tail(cities), files,
                      Append(results, Entry(c, FALSE, FALSE, FALSE, 0)),
                      now, start_hour, end_hour, report)
       ELSE UNION {
              pull_loop(Tail(cities), r.files,
                        Append(results, PullEntry(c, r, load_existing(files, c))),
                        now, start_hour, end_hour, report)
              : r \in incremental_pull(files, c, now, start_hour, end_hour) }

\* an update that stops after the first city
update_hourly_first_only(files, now, req) ==
  pull_loop(IF req.city = None THEN <<Head(API_MUNICIPIOS_LIST)>> ELSE <<parse_city(req.city)>>,
            files, <<>>, now, req.start_hour, req.end_hour, TRUE)

update_hourly(files, now, req) ==
  pull_loop(IF req.city = None THEN API_MUNICIPIOS_LIST ELSE <<parse_city(req.city)>>,
            files, <<>>, now, req.start_hour, req.end_hour, TRUE)

scheduled_update(files, now) ==
  pull_loop(API_MUNICIPIOS_LIST, files, <<>>, now, 6, 18, FALSE)


(***************************************************************************)
(* The data API as a state machine: requests handled one at a time         *)
(***************************************************************************)
Clock0 == 10 * 24 + 7

xcity == Str(<<"x">>)

SingleReq(city, start_date, end_date, start_hour, end_hour, coords) ==
  [ city |-> city, start_date |-> start_date, end_date |-> end_date,
    start_hour |-> start_hour, end_hour |-> end_hour, coords |-> coords ]

\* DownloadRequest bodies sent at hour now
SingleRequests(now) ==
  LET today == DateOf(now) IN
  { SingleReq(<<SP>> \o Cap(riohacha), today, NoDate, 6, 6, FALSE),
    SingleReq(riohacha, today, today, 6, 7, FALSE),
    SingleReq(xcity, today, NoDate, 6, 6, FALSE) }

\* BulkDownloadRequest bodies sent at hour now
BulkRequests(now) ==
  LET today == DateOf(now) IN
  { [cities |-> <<>>, start_date |-> today, end_date |-> NoDate,
     start_hour |-> 6, end_hour |-> 6],
    [cities |-> <<xcity, Cap(riohacha)>>, start_date |-> today, end_date |-> NoDate,
     start_hour |-> 6, end_hour |-> 6] }

\* UpdateRequest bodies
UpdateRequests ==
  { [city |-> None, start_hour |-> 6, end_hour |-> 18],
    [city |-> Cap(riohacha), start_hour |-> 6, end_hour |-> 18],
    [city |-> xcity, start_hour |-> 6, end_hour |-> 18] }

\* the value of the last row of df with key k
LastVal(df, k) ==
  df[CHOOSE i \in 1..Len(df) :
       /\ RowKey(df[i]) = k
       /\ \A j \in (i + 1)..Len(df) : RowKey(df[j]) # k].val

\* the value of every key of df, the rows a download fetched
UpdateLatest(df) ==
  [k \in Keys(df) |-> LastVal(df, k)]

\* some fetched row's key was in a file already
Overlap(df) ==
  \E f \in DOMAIN csv : Keys(df) \cap Keys(csv[f]) # {}

Op(name, status, out, df, cities) ==
  [name |-> name, status |-> status, out |-> out, overlap |-> Overlap(df),
   cities |-> cities]

DataInit ==
  /\ clock = Clock0
  /\ csv = <<>>
  /\ latest = <<>>
  /\ op = [name |-> "init", status |-> 0, out |-> <<>>, overlap |-> FALSE,
           cities |-> <<>>]

DownloadSingle ==
  \E req \in SingleRequests(clock) :
    \E o \in download_single(csv, clock, req) :
      /\ csv' = o.files
      /\ latest' = UpdateLatest(o.df)
      /\ op' = Op("download_single", o.status, <<>>, o.df, <<req.city>>)
      /\ UNCHANGED <<clock, sessionVars, fsVars, chatVars, bootVars, plotVars, dispatchVars, raceVars, welcomeVars>>

DownloadBulk ==
  \E req \in BulkRequests(clock) :
    \E o \in download_bulk(csv, clock, req) :
      /\ csv' = o.files
      /\ latest' = UpdateLatest(o.df)
      /\ op' = Op("download_bulk", 200, o.out, o.df,
                  \* req.cities or list(MUNICIPIOS.keys())
                  IF req.cities = <<>> THEN API_MUNICIPIOS_LIST ELSE req.cities)
      /\ UNCHANGED <<clock, sessionVars, fsVars, chatVars, bootVars, plotVars, dispatchVars, raceVars, welcomeVars>>

UpdateHourly ==
  \E req \in UpdateRequests :
    \E o \in update_hourly(csv, clock, req) :
      /\ csv' = o.files
      /\ op' = Op("update_hourly", 200, o.out, <<>>,
                  \* [parse_city(req.city)] if req.city else list(MUNICIPIOS.keys())
                  IF req.city = None THEN API_MUNICIPIOS_LIST ELSE <<req.city>>)
      /\ UNCHANGED <<clock, latest, sessionVars, fsVars, chatVars, bootVars, plotVars, dispatchVars, raceVars, welcomeVars>>

ScheduledUpdate ==
  \E o \in scheduled_update(csv, clock) :
    /\ csv' = o.files
    /\ op' = Op("scheduled_update", 0, o.out, <<>>, API_MUNICIPIOS_LIST)
    /\ UNCHANGED <<clock, latest, sessionVars, fsVars, chatVars, bootVars, plotVars, dispatchVars, raceVars, welcomeVars>>

\* DownloadRequest bodies for one day at or before the day of hour now
DayRequests(now) ==
  LET today == DateOf(now) IN
  { SingleReq(riohacha, today - 2, today - 2, 23, 23, FALSE),
    SingleReq(riohacha, today - 1, today - 1, 6, 6, FALSE),
    SingleReq(maicao, today, today, 6, 6, FALSE) }

\* /download/single for one day: the datasets the refreshes start from
DownloadDay ==
  \E req \in DayRequests(clock) :
    \E o \in download_single(csv, clock, req) :
      /\ csv' = o.files
      /\ latest' = UpdateLatest(o.df)
      /\ op' = Op("download_single", o.status, <<>>, o.df, <<req.city>>)
      /\ UNCHANGED <<clock, sessionVars, fsVars, chatVars, bootVars, plotVars, dispatchVars, raceVars, welcomeVars>>

NextRefresh ==
  \/ DownloadDay
  \/ UpdateHourly
  \/ ScheduledUpdate

(***************************************************************************)
(* The data API under concurrent operations                                *)
(*                                                                         *)
(* The endpoints are plain functions, which FastAPI runs in the threads of *)
(* a pool, and the scheduler runs scheduled_update in a thread of its own: *)
(* several operations can be inside their load_existing ... save_df at the *)
(* same time.  For each city an operation works on it reads the file       *)
(* (Load) and later replaces it (Save); other threads run in between.      *)
(* save_df's write and move are taken as one step here.                    *)
(***************************************************************************)
MaxOps == 2

\* the operations started against the files: /download/single and
\* /download/bulk for one hour of today, /update/hourly for one city and
\* the scheduler's job over every city
RaceOperations(now) ==
  LET today == DateOf(now) IN
  { [kind |-> "download_single", cities |-> <<riohacha>>, start_hour |-> 6, end_hour |-> 6],
    [kind |-> "download_single", cities |-> <<riohacha>>, start_hour |-> 7, end_hour |-> 7],
    [kind |-> "download_bulk", cities |-> <<riohacha>>, start_hour |-> 7, end_hour |-> 7],
    [kind |-> "update_hourly", cities |-> <<riohacha>>, start_hour |-> 6, end_hour |-> 18],
    [kind |-> "scheduled_update", cities |-> API_MUNICIPIOS_LIST, start_hour |-> 6, end_hour |-> 18] }

\* what the operation o does for the city c from the files it loaded: the
\* file it saves (written: it saved one)
SavedFile(o, c, loaded, now) ==
  IF o.kind \in {"download_single", "download_bulk"}
  THEN { [written |-> ~d.exc /\ d.df # <<>>, rows |-> load_existing(d.files, c)]
         : d \in FetchAndSave(loaded, c, DateOf(now), DateOf(now),
                              o.start_hour, o.end_hour) }
  ELSE { [written |-> ~r.exc /\ load_existing(r.files, c) # <<>>,
          rows |-> load_existing(r.files, c)]
         : r \in incremental_pull(loaded, c, now, o.start_hour, o.end_hour) }

RaceInit == race = <<>>

\* a request arrives, or the scheduler's job fires
StartOp ==
  /\ Len(race) < MaxOps
  /\ \E o \in RaceOperations(clock) :
       race' = Append(race, [kind |-> o.kind, cities |-> o.cities,
                             start_hour |-> o.start_hour, end_hour |-> o.end_hour,
                             pc |-> "load", loaded |-> <<>>, persisted |-> {}])
  /\ UNCHANGED <<sessionVars, dataVars, fsVars, chatVars, bootVars, plotVars, dispatchVars, welcomeVars>>

\* load_existing(city_norm) of the city the operation is at
Load ==
  \E i \in DOMAIN race :
    /\ race[i].pc = "load"
    /\ race' = [race EXCEPT ![i].pc = "save", ![i].loaded = csv]
    /\ UNCHANGED <<sessionVars, dataVars, fsVars, chatVars, bootVars, plotVars, dispatchVars, welcomeVars>>

\* the rest of the operation for that city, up to its save_df; then the
\* next city, if any
Save ==
  \E i \in DOMAIN race :
    /\ race[i].pc = "save"
    /\ LET c == Head(race[i].cities) IN
       \E w \in SavedFile(race[i], c, race[i].loaded, clock) :
         /\ csv' = IF w.written
                   THEN [f \in (DOMAIN csv) \cup {csv_path(c)} |->
                           IF f = csv_path(c) THEN w.rows ELSE csv[f]]
                   ELSE csv
         /\ race' = [race EXCEPT
                       ![i].cities = Tail(@),
                       ![i].pc = IF Tail(race[i].cities) = <<>> THEN "done" ELSE "load",
                       ![i].loaded = <<>>,
                       ![i].persisted = IF w.written THEN @ \cup Keys(w.rows) ELSE @]
    /\ UNCHANGED <<clock, op, latest, sessionVars, fsVars, chatVars, bootVars, plotVars, dispatchVars, welcomeVars>>

NextRace ==
  \/ StartOp
  \/ Load
  \/ Save


(***************************************************************************)
(* The subagents' conversational memories                                  *)
(*                                                                         *)
(* MessageHandler.__init__ gives every municipality one                    *)
(* ConversationBufferMemory and builds its subagent chain over it; the one *)
(* MessageHandler serves every user.  A run of the chain loads the         *)
(* memory's history into the prompt and, when the LLM answered, saves the  *)
(* question and the answer to it; a run that raised saves nothing.         *)
(***************************************************************************)
\* how many exchanges the memories hold, all together, before the model
\* stops following new ones
MaxExchanges == 2

\* the users that talk to the bot while the memories are followed
ChatUsers == {1, 2}

\* one saved exchange: who asked, the municipality named in the question's
\* context line, and the question
Exchange(u, m, question) == [user |-> u, mun |-> m, question |-> question]

\* a subagent that starts every run with an empty history
load_memory_variables_fresh(mems, m) == <<>>

\* ConversationBufferMemory.load_memory_variables of the memory of m: the
\* history the chain of _build_subagent(m) puts into its prompt
load_memory_variables(mems, m) == mems[m]

\* a save that writes the exchange to every municipality's memory
save_context_all(mems, m, e) == [n \in DOMAIN mems |-> Append(mems[n], e)]

\* ConversationBufferMemory.save_context of the memory of m
save_context(mems, m, e) == [mems EXCEPT ![m] = Append(@, e)]

NoChat ==
  [ called |-> FALSE, user |-> 0, mun |-> None, question |-> None,
    history |-> <<>>, answered |-> FALSE ]

\* the run self.subagents[m].run(...) of a handler outcome o for user u and
\* question user_q, over the memories mems: the history it was given and
\* whether the chain answered
SubagentRun(mems, u, user_q, o) ==
  LET runs == {i \in 1..Len(o.calls) : o.calls[i].fn = "subagent"} IN
  IF runs = {} THEN NoChat
  ELSE LET m == o.calls[CHOOSE i \in runs : TRUE].mun IN
       [ called |-> TRUE, user |-> u, mun |-> m, question |-> user_q,
         history |-> load_memory_variables(mems, m),
         answered |-> (o.fault # "subagent") ]

\* the memories after that run
Remember(mems, c) ==
  IF c.called /\ c.answered
  THEN save_context(mems, c.mun, Exchange(c.user, c.mun, c.question))
  ELSE mems

RECURSIVE Exchanges(_, _)
Exchanges(mems, ms) ==
  IF ms = {} THEN 0
  ELSE LET m == CHOOSE x \in ms : TRUE
       IN  Len(mems[m]) + Exchanges(mems, ms \ {m})

\* how many exchanges the router's memory holds before the model stops
\* following new messages
MaxRouted == 2

\* one exchange of the router chain: who asked, the question and the
\* chain's output
Routed(u, question, answer) == [user |-> u, question |-> question, answer |-> answer]

\* a router chain that starts every run with an empty history
router_history_fresh(memory) == <<>>

\* load_memory_variables of self.router_memory: the history the router
\* chain puts into its prompt
router_history(memory) == memory

NoRouterRun ==
  [ called |-> FALSE, user |-> 0, question |-> None, history |-> <<>>,
    answered |-> FALSE, answer |-> None ]

\* the run self.router_chain.run(...) of a handler outcome o for user u
\* and question user_q, over the router's memory
RouterRun(memory, u, user_q, o) ==
  IF \E i \in 1..Len(o.calls) : o.calls[i].fn = "router"
  THEN [ called |-> TRUE, user |-> u, question |-> user_q,
         history |-> router_history(memory),
         answered |-> (o.fault # "router"),
         answer |-> IF o.fault # "router" THEN o.raw ELSE None ]
  ELSE NoRouterRun

\* the router's memory after that run: the chain saves the question and
\* its output when the LLM answered
RouterRemember(memory, r) ==
  IF r.called /\ r.answered
  THEN Append(memory, Routed(r.user, r.question, r.answer))
  ELSE memory

\* free-text messages and router outputs while the memories are followed
ChatTexts == {hola, maicao}

ChatRouterOutputs ==
  {RouterFailure, RouterOutput(hola)} \cup {RouterOutput(m) : m \in MunicipioSet}

ChatInit ==
  /\ municipio_memories = [m \in MunicipioSet |-> <<>>]
  /\ chat = NoChat
  /\ said = {}
  /\ router_memory = <<>>
  /\ router_run = NoRouterRun

\* a free-text message of user u, with what it does to the memories
SharedMessage(u) ==
  /\ Exchanges(municipio_memories, MunicipioSet) < MaxExchanges
  /\ Len(router_memory) < MaxRouted
  /\ \E text \in ChatTexts :
       \E o \in handle_message(get_user_state(u), text, ChatRouterOutputs) :
         LET c == SubagentRun(municipio_memories, u, strip(text), o)
             r == RouterRun(router_memory, u, strip(text), o)
         IN
         /\ user_states' = Store(u, o.state)
         /\ router_run' = r
         /\ router_memory' = RouterRemember(router_memory, r)
         /\ chat' = c
         /\ municipio_memories' = Remember(municipio_memories, c)
         /\ said' = IF c.called /\ c.answered
                    THEN said \cup {Exchange(c.user, c.mun, c.question)}
                    ELSE said
         /\ UNCHANGED <<turn, dataVars, fsVars, bootVars, plotVars, dispatchVars, raceVars, welcomeVars>>

\* /cambiar by user u: no chain is run
SharedCambiar(u) ==
  /\ user_states' = Store(u, cambiar_command(get_user_state(u)).state)
  /\ chat' = NoChat
  /\ router_run' = NoRouterRun
  /\ UNCHANGED <<municipio_memories, said, router_memory, turn, dataVars, fsVars, bootVars, plotVars, dispatchVars, raceVars, welcomeVars>>

NextMemory ==
  \/ \E u \in ChatUsers : SharedMessage(u)
  \/ \E u \in ChatUsers : SharedCambiar(u)

(***************************************************************************)
(* Start-up of the bot processes                                           *)
(*                                                                         *)
(* agents/telegramMultiagent.py (the multi-agent bot) and                  *)
(* tests/TelegramBotOrganized.py (the single-dataset analysis bot): the    *)
(* statements each runs from the import of the module to run_polling.      *)
(***************************************************************************)
\* how many updates a polling process is followed for
MaxUpdates == 3

Programs == {"telegramMultiagent", "TelegramBotOrganized"}

\* a variable of the environment (.env included): not defined, defined
\* with an empty value, or defined with a value
Credentials == {"absent", "empty", "set"}

\* bool(os.getenv(name)) and bool(os.getenv(name, "")): None and "" are
\* both false
Truthy(c) == c = "set"

\* ChatOpenAI(model=..., api_key=os.getenv("OPENAI_API_KEY")): with no key
\* given and none in the environment the client refuses to be built; an
\* empty key is refused by the releases that read it with
\* get_from_dict_or_env and accepted by the later ones
ChatOpenAI(key) ==
  IF key = "set" THEN {"ok"}
  ELSE IF key = "absent" THEN {"raise"}
  ELSE {"ok", "raise"}

\* the LLM clients the program builds before it registers handlers:
\* HandlerFactory.create_handlers builds three handlers, each with its own
\* client (BaseHandler.__init__); TelegramBot.setup_agent builds one
Clients(p) == IF p = "telegramMultiagent" THEN 3 ELSE 1

\* the handlers the program registers, in order
Handlers(p) ==
  IF p = "telegramMultiagent"
  THEN <<"start", "help", "municipios", "cambiar", "estado",
         "municipio_callback", "handle_message">>
  ELSE <<"start", "handle_message">>

\* the kinds of update each registered handler serves
Updates == {"command", "callback", "text"}

Process(p, pc) ==
  [ prog |-> p, pc |-> pc, clients |-> 0, handlers |-> <<>>,
    served |-> <<>> ]

BootInit ==
  /\ env = [token |-> "absent", api_key |-> "absent"]
  /\ boot = Process(None, "off")

\* the process is started with some environment
Launch ==
  /\ boot.pc = "off"
  /\ \E p \in Programs, t \in Credentials, k \in Credentials :
       /\ env' = [token |-> t, api_key |-> k]
       /\ boot' = Process(p, "module")
  /\ UNCHANGED <<sessionVars, dataVars, fsVars, chatVars, plotVars, dispatchVars, raceVars, welcomeVars>>

\* the module-level statements: the multi-agent bot raises ValueError
\* without a token, the analysis bot raises RuntimeError without a token or
\* without a key
ImportModule ==
  /\ boot.pc = "module"
  /\ boot' = [boot EXCEPT !.pc =
       IF boot.prog = "telegramMultiagent"
       THEN IF ~Truthy(env.token) THEN "failed" ELSE "main"
       ELSE IF ~Truthy(env.token) \/ ~Truthy(env.api_key) THEN "failed" ELSE "main"]
  /\ UNCHANGED <<env, sessionVars, dataVars, fsVars, chatVars, plotVars, dispatchVars, raceVars, welcomeVars>>

\* main(): the multi-agent bot returns without a token, else builds the
\* Application and goes on to create its handlers; the analysis bot goes on
\* to load its dataset
Main ==
  /\ boot.pc = "main"
  /\ boot' = [boot EXCEPT !.pc =
       IF boot.prog = "telegramMultiagent"
       THEN IF ~Truthy(env.token) THEN "returned" ELSE "clients"
       ELSE "setup_data"]
  /\ UNCHANGED <<env, sessionVars, dataVars, fsVars, chatVars, plotVars, dispatchVars, raceVars, welcomeVars>>

\* TelegramBot.setup_data: pd.read_csv(CSV_PATH) gives the frame or raises
SetupData ==
  /\ boot.pc = "setup_data"
  /\ \E ok \in BOOLEAN :
       boot' = [boot EXCEPT !.pc = IF ok THEN "clients" ELSE "failed"]
  /\ UNCHANGED <<env, sessionVars, dataVars, fsVars, chatVars, plotVars, dispatchVars, raceVars, welcomeVars>>

\* the next LLM client is built (BaseHandler.__init__, setup_agent); after
\* the last one the program goes on to register its handlers
BuildClient ==
  /\ boot.pc = "clients"
  /\ \E r \in ChatOpenAI(env.api_key) :
       boot' = IF r = "raise"
               THEN [boot EXCEPT !.pc = "failed"]
               ELSE [boot EXCEPT !.clients = @ + 1,
                                 !.pc = IF boot.clients + 1 = Clients(boot.prog)
                                        THEN "handlers" ELSE "clients"]
  /\ UNCHANGED <<env, sessionVars, dataVars, fsVars, chatVars, plotVars, dispatchVars, raceVars, welcomeVars>>

\* application.add_handler of the next handler; after the last one the
\* program goes on to run_polling
AddHandler ==
  /\ boot.pc = "handlers"
  /\ LET hs == Append(boot.handlers, Handlers(boot.prog)[Len(boot.handlers) + 1])
     IN  boot' = [boot EXCEPT !.handlers = hs,
                              !.pc = IF Len(hs) = Len(Handlers(boot.prog))
                                     THEN "run" ELSE "handlers"]
  /\ UNCHANGED <<env, sessionVars, dataVars, fsVars, chatVars, plotVars, dispatchVars, raceVars, welcomeVars>>

\* application.run_polling
RunPolling ==
  /\ boot.pc = "run"
  /\ boot' = [boot EXCEPT !.pc = "polling"]
  /\ UNCHANGED <<env, sessionVars, dataVars, fsVars, chatVars, plotVars, dispatchVars, raceVars, welcomeVars>>

\* the polling process receives an update and hands it to its handlers
Serve ==
  /\ boot.pc = "polling"
  /\ Len(boot.served) < MaxUpdates
  /\ \E upd \in Updates :
       boot' = [boot EXCEPT !.served = Append(@, upd)]
  /\ UNCHANGED <<env, sessionVars, dataVars, fsVars, chatVars, plotVars, dispatchVars, raceVars, welcomeVars>>

NextBoot ==
  \/ Launch
  \/ ImportModule
  \/ Main
  \/ SetupData
  \/ BuildClient
  \/ AddHandler
  \/ RunPolling
  \/ Serve

(***************************************************************************)
(* PlotHandler: the chart files                                            *)
(*                                                                         *)
(* Time is in whole seconds.  A path is [dir, name, ext]; the name of a    *)
(* file of execute_plot_code is <<"plot", t>>, t the second it was named   *)
(* in (plot_%Y%m%d_%H%M%S.png).                                            *)
(***************************************************************************)
\* how often the clock of the chart files is advanced
MaxTicks == 3
\* how many files the model lets exist
MaxPlots == 2

Day == 86400

\* by how much the clock advances between two calls
Delays == {10, 30, Day}

Path(d, name, ext) == [dir |-> d, name |-> name, ext |-> ext]

\* the directories find_recent_plots searches: charts_dir and project_root
SearchedDirs == {"charts_dir", "project_root"}

\* timedelta.seconds: the seconds of the difference that do not make a
\* whole day (0 <= seconds < 86400), microseconds dropped
timedelta_seconds(delta) == delta % Day

\* directory.glob("*.png") over both directories
glob_png(files) ==
  {f \in DOMAIN files : f.dir \in SearchedDirs /\ f.ext = "png"}

\* PlotHandler.find_recent_plots at second current_time
find_recent_plots(files, current_time) ==
  {f \in glob_png(files) : timedelta_seconds(current_time - files[f]) < 30}

\* LLM-written plotting code, by what execute_plot_code makes of it:
\*   show    - it calls plt.show()
\*   savefig - its text contains 'plt.savefig' (it saves to a path of its own)
\*   raises  - its execution raises
PlotCodes == [show : BOOLEAN, savefig : BOOLEAN, raises : BOOLEAN]

\* the path the code's own plt.savefig names
OwnTarget == Path("project_root", <<"own", 0>>, "png")

\* files with the file f written at second t
Touch(files, f, t) ==
  [g \in (DOMAIN files) \cup {f} |-> IF g = f THEN t ELSE files[g]]

\* PlotHandler.execute_plot_code(code, df) at second now: the path it
\* returns (ok) or the exception it raises, the files its execution wrote
\* and the files on disk afterwards.  The save call is appended when the
\* code has none; the code is run; an exception of the code is re-raised.
execute_plot_code(files, code, now) ==
  LET filepath == Path("charts_dir", <<"plot", now>>, "png")
      appended == ~code.savefig
      \* what exec(code) writes when it runs to its end
      targets == IF appended THEN {filepath} ELSE {OwnTarget}
      Result(ok, written) ==
        [ ok |-> ok, path |-> IF ok THEN filepath ELSE None,
          appended |-> appended, written |-> written,
          files |-> [g \in (DOMAIN files) \cup written |->
                       IF g \in written THEN now ELSE files[g]] ]
  IN  IF code.raises
      THEN \* the appended call is the last line: it is not reached; a
           \* save call of the code itself may have run before the failure
           {Result(FALSE, {})} \cup (IF appended THEN {} ELSE {Result(FALSE, targets)})
      ELSE {Result(TRUE, targets)}

NoPlotOp == [name |-> "none", ok |-> FALSE, path |-> None, appended |-> FALSE,
             written |-> {}, found |-> {}, response |-> <<>>, code |-> <<>>]

PlotInit ==
  /\ plot_time = [now |-> 0, ticks |-> 0]
  /\ plot_files = <<>>
  /\ plot_op = NoPlotOp

\* time passes
PlotTick ==
  /\ plot_time.ticks < MaxTicks
  /\ \E d \in Delays :
       plot_time' = [now |-> plot_time.now + d, ticks |-> plot_time.ticks + 1]
  /\ UNCHANGED <<plot_files, plot_op, sessionVars, dataVars, fsVars, chatVars,
                 bootVars, dispatchVars, raceVars, welcomeVars>>

\* the analysis agent's own tool run leaves a file in one of the
\* directories (the side effect find_recent_plots looks for)
AgentSavesFile ==
  /\ \E d \in SearchedDirs, ext \in {"png", "csv"} :
       LET f == Path(d, <<"agent", 0>>, ext) IN
       /\ Cardinality(DOMAIN plot_files \cup {f}) <= MaxPlots
       /\ plot_files' = Touch(plot_files, f, plot_time.now)
  /\ plot_op' = [NoPlotOp EXCEPT !.name = "agent"]
  /\ UNCHANGED <<plot_time, sessionVars, dataVars, fsVars, chatVars, bootVars, dispatchVars, raceVars, welcomeVars>>

\* the pipeline runs extracted code
ExecutePlotCode ==
  /\ \E code \in PlotCodes :
       \E r \in execute_plot_code(plot_files, code, plot_time.now) :
         /\ Cardinality(DOMAIN r.files) <= MaxPlots
         /\ plot_files' = r.files
         /\ plot_op' = [ name |-> "execute_plot_code", ok |-> r.ok, path |-> r.path,
                         appended |-> r.appended, written |-> r.written,
                         found |-> {}, response |-> <<>>, code |-> <<>> ]
  /\ UNCHANGED <<plot_time, sessionVars, dataVars, fsVars, chatVars, bootVars, dispatchVars, raceVars, welcomeVars>>

\* the pipeline looks for recent artifacts
FindRecentPlots ==
  /\ plot_op' = [NoPlotOp EXCEPT !.name = "find_recent_plots",
                                 !.found = find_recent_plots(plot_files, plot_time.now)]
  /\ UNCHANGED <<plot_time, plot_files, sessionVars, dataVars, fsVars, chatVars,
                 bootVars, dispatchVars, raceVars, welcomeVars>>

(***************************************************************************)
(* PlotHandler.extract_code                                                *)
(*                                                                         *)
(* An agent response is a sequence of tokens: "fence" three backquotes,    *)
(* "python" the word python, "ws" white space, "plt" text that names a     *)
(* plotting library (plt., sns., matplotlib, seaborn), "x" any other text. *)
(***************************************************************************)
\* how many tokens a response has at most
MaxTokens == 6

Tokens == {"fence", "python", "ws", "plt", "x"}

\* str.strip(): white space dropped at both ends
strip_ws(t) ==
  LET solid == {i \in 1..Len(t) : t[i] # "ws"} IN
  IF solid = {} THEN <<>>
  ELSE SubSeq(t, CHOOSE i \in solid : \A j \in solid : i <= j,
                 CHOOSE i \in solid : \A j \in solid : j <= i)

\* re.search of the pattern for a fence, python, \s*(.*?)\s* and a fence: the
\* leftmost fence followed by "python" that has a fence after it, and the
\* text up to the nearest such fence; group(1), or no match
search_tagged(response) ==
  LET opens == {i \in 1..(Len(response) - 1) :
                  /\ response[i] = "fence" /\ response[i + 1] = "python"
                  /\ \E j \in (i + 2)..Len(response) : response[j] = "fence"}
  IN  IF opens = {} THEN [match |-> FALSE, group |-> <<>>]
      ELSE LET i == CHOOSE a \in opens : \A b \in opens : a <= b
               j == CHOOSE a \in (i + 2)..Len(response) :
                      /\ response[a] = "fence"
                      /\ \A b \in (i + 2)..(a - 1) : response[b] # "fence"
           IN  [match |-> TRUE, group |-> SubSeq(response, i + 2, j - 1)]

\* re.search of the pattern for a fence, \s*(.*?)\s* and a fence: the leftmost
\* fence that has a fence after it, and the text between the two
search_untagged(response) ==
  LET opens == {i \in 1..Len(response) :
                  /\ response[i] = "fence"
                  /\ \E j \in (i + 1)..Len(response) : response[j] = "fence"}
  IN  IF opens = {} THEN [match |-> FALSE, group |-> <<>>]
      ELSE LET i == CHOOSE a \in opens : \A b \in opens : a <= b
               j == CHOOSE a \in (i + 1)..Len(response) :
                      /\ response[a] = "fence"
                      /\ \A b \in (i + 1)..(a - 1) : response[b] # "fence"
           IN  [match |-> TRUE, group |-> SubSeq(response, i + 1, j - 1)]

\* any(lib in code for lib in ['plt.', 'sns.', 'matplotlib', 'seaborn'])
uses_plot_library(code) == \E i \in 1..Len(code) : code[i] = "plt"

\* PlotHandler.extract_code: the first pattern whose first match uses a
\* plotting library gives the code; "" otherwise
extract_code(response) ==
  LET m1 == search_tagged(response)
      m2 == search_untagged(response)
  IN  IF m1.match /\ uses_plot_library(strip_ws(m1.group)) THEN strip_ws(m1.group)
      ELSE IF m2.match /\ uses_plot_library(strip_ws(m2.group)) THEN strip_ws(m2.group)
      ELSE <<>>

\* the agent's answer grows by one token
AnswerToken ==
  /\ plot_op.name \in {"none", "agent_answer"}
  /\ Len(plot_op.response) < MaxTokens
  /\ \E t \in Tokens :
       plot_op' = [NoPlotOp EXCEPT !.name = "agent_answer",
                                   !.response = Append(plot_op.response, t)]
  /\ UNCHANGED <<plot_time, plot_files, sessionVars, dataVars, fsVars, chatVars,
                 bootVars, dispatchVars, raceVars, welcomeVars>>

\* the pipeline extracts the code of the agent's answer
ExtractCode ==
  /\ plot_op.name \in {"none", "agent_answer"}
  /\ plot_op' = [NoPlotOp EXCEPT !.name = "extract_code",
                                 !.response = plot_op.response,
                                 !.code = extract_code(plot_op.response)]
  /\ UNCHANGED <<plot_time, plot_files, sessionVars, dataVars, fsVars, chatVars,
                 bootVars, dispatchVars, raceVars, welcomeVars>>

NextExtract ==
  \/ AnswerToken
  \/ ExtractCode

NextPlot ==
  \/ PlotTick
  \/ AgentSavesFile
  \/ ExecutePlotCode
  \/ FindRecentPlots

(***************************************************************************)
(* The dispatcher: updates, handler coroutines and their awaits            *)
(*                                                                         *)
(* Application.run_polling puts every update it receives on update_queue.  *)
(* The update fetcher takes them off one by one and runs the handler of    *)
(* each; with concurrent_updates off (the builder's default) it awaits the *)
(* handler before it takes the next update.  The handlers are registered   *)
(* blocking (block=True, the default).  A coroutine gives up control only  *)
(* at an await: the code between two awaits runs without interleaving.     *)
(***************************************************************************)
\* how many updates the model follows
MaxDispatched == 3

\* Application.builder().token(token).build(): concurrent_updates not set
concurrent_updates_enabled == TRUE

concurrent_updates == FALSE

DispatchUsers == {1, 2}

\* the updates users send: a free text, /cambiar or a municipality button
\* (text: its callback data without the prefix)
DispatchUpdates ==
  {[kind |-> "text", text |-> t] : t \in {riohacha, hola}}
  \cup {[kind |-> "cambiar", text |-> <<>>]}
  \cup {[kind |-> "callback", text |-> d] : d \in {riohacha, Cap(riohacha)}}

\* what the router chain answers to a text
DispatchRouterOutputs == {RouterFailure, RouterOutput(riohacha), RouterOutput(general)}

\* a handler coroutine: pc is the await it stands at ("done": it returned);
\* saw_unbound, it found no active municipality in the session; route, the
\* municipality it bound; dl, it called the downloader; with, the coroutines that were in flight at some
\* moment while this one was; behind, its update arrived while a coroutine
\* of the same user was in flight
Task(upd, pc, saw_unbound, route, with) ==
  [ user |-> upd.user, kind |-> upd.kind, text |-> upd.text, pc |-> pc,
    saw_unbound |-> saw_unbound, route |-> route, dl |-> FALSE, with |-> with,
    behind |-> upd.behind ]

InFlight == {i \in DOMAIN tasks : tasks[i].pc # "done"}

\* handle_message from its start to its first await: the session it leaves,
\* the await it stops at and whether it found the session unbound
handle_message_to_await(s, text) ==
  LET user_q == strip(text) IN
  IF user_q = <<>>
  THEN {[s |-> s, pc |-> "done", saw_unbound |-> FALSE, route |-> None]}
  ELSE IF SwitchDetected(s, user_q)
  THEN \* the notice is awaited before the reset
       {[s |-> s, pc |-> "switch_reply", saw_unbound |-> FALSE, route |-> None]}
  ELSE IF s.current_municipio = None
  THEN \* _handle_router_request: the router chain runs without an await; a
       \* municipality is bound before the first reply is awaited
       { IF ~ro.exc /\ RouteOf(ro) \in MunicipioSet
         THEN [s |-> [s EXCEPT !.current_municipio = RouteOf(ro)],
               pc |-> "downloading_reply", saw_unbound |-> TRUE, route |-> RouteOf(ro)]
         ELSE [s |-> s, pc |-> "reply", saw_unbound |-> TRUE, route |-> None]
         : ro \in DispatchRouterOutputs }
  ELSE \* _handle_municipio_request: the agent is awaited, the subagent
       \* chain is not
       IF s.current_dataframe # NoData /\ s.pandas_agent # NoAgent
       THEN {[s |-> s, pc |-> "agent", saw_unbound |-> FALSE, route |-> None]}
       ELSE {[s |-> s, pc |-> "reply", saw_unbound |-> FALSE, route |-> None]}

\* a handler coroutine that bound route, from the await pc to its next
\* await, on the session s as it is now: the session it leaves, the await it stops at and whether
\* it called the downloader
resume_to_await(s, pc, route) ==
  IF pc = "switch_reply"
  THEN {[s |-> _reset_user_state(s), pc |-> "done", dl |-> FALSE, route |-> route]}
  ELSE IF pc = "answer"
  THEN \* municipio_callback after query.answer(): route is the callback
       \* data; a known municipality is bound before the notice is awaited
       IF route \notin MunicipioSet
       THEN {[s |-> s, pc |-> "reply", dl |-> FALSE, route |-> None]}
       ELSE {[s |-> [s EXCEPT !.current_municipio = route],
              pc |-> "downloading_reply", dl |-> FALSE, route |-> route]}
  ELSE IF pc = "downloading_reply"
  THEN \* the download, the loading of its result and (for a text) the
       \* subagent chain run without an await; the answer (or the error)
       \* is awaited
       UNION { IF r.exc
               THEN {[s |-> s, pc |-> "reply", dl |-> TRUE, route |-> route]}
               ELSE {[s |-> LoadDownload(s, r, csv_ok, agent_ok),
                      pc |-> "reply", dl |-> TRUE, route |-> route]
                     : csv_ok \in BOOLEAN, agent_ok \in BOOLEAN}
               : r \in DownloadResults(route) }
  ELSE IF pc = "agent"
  THEN \* the agent answered: the chart or the analysis is sent
       {[s |-> s, pc |-> "reply", dl |-> FALSE, route |-> route]}
  ELSE {[s |-> s, pc |-> "done", dl |-> FALSE, route |-> route]}

DispatchInit ==
  /\ update_queue = <<>>
  /\ tasks = <<>>

\* an update arrives
Receive ==
  /\ Len(update_queue) + Len(tasks) < MaxDispatched
  /\ \E u \in DispatchUsers, upd \in DispatchUpdates :
       update_queue' =
         Append(update_queue,
                [ user |-> u, kind |-> upd.kind, text |-> upd.text,
                  behind |-> \E i \in InFlight : tasks[i].user = u ])
  /\ UNCHANGED <<tasks, sessionVars, dataVars, fsVars, chatVars, bootVars, plotVars, raceVars, welcomeVars>>

\* the update fetcher may take the next update
CanDispatch ==
  /\ update_queue # <<>>
  /\ concurrent_updates \/ InFlight = {}

\* the update fetcher takes the next update and its handler runs to its
\* first await
Dispatch ==
  /\ CanDispatch
  /\ LET upd == Head(update_queue)
         s == get_user_state(upd.user)
         k == Len(tasks) + 1
         others == [i \in DOMAIN tasks |->
                      IF i \in InFlight
                      THEN [tasks[i] EXCEPT !.with = @ \cup {k}]
                      ELSE tasks[i]]
     IN  IF upd.kind = "callback"
         THEN \* municipio_callback: query.answer() is awaited first
              /\ user_states' = user_states
              /\ tasks' = Append(others, Task(upd, "answer", FALSE, upd.text, InFlight))
         ELSE
         \E o \in IF upd.kind = "cambiar"
                  THEN \* cambiar_command: the reset, then the reply is awaited
                       {[s |-> cambiar_command(s).state, pc |-> "reply",
                         saw_unbound |-> FALSE, route |-> None]}
                  ELSE handle_message_to_await(s, upd.text) :
           /\ user_states' = Store(upd.user, o.s)
           /\ tasks' = Append(others, Task(upd, o.pc, o.saw_unbound, o.route, InFlight))
  /\ update_queue' = Tail(update_queue)
  /\ UNCHANGED <<turn, dataVars, fsVars, chatVars, bootVars, plotVars, raceVars, welcomeVars>>

\* the awaited call of a coroutine returns and the coroutine runs on
Resume ==
  \E i \in InFlight :
    \E o \in resume_to_await(get_user_state(tasks[i].user), tasks[i].pc, tasks[i].route) :
      /\ user_states' = Store(tasks[i].user, o.s)
      /\ tasks' = [tasks EXCEPT ![i].pc = o.pc, ![i].dl = o.dl \/ @,
                                ![i].route = o.route]
      /\ UNCHANGED <<update_queue, turn, dataVars, fsVars, chatVars, bootVars, plotVars, raceVars, welcomeVars>>

NextDispatch ==
  \/ Receive
  \/ Dispatch
  \/ Resume

(***************************************************************************)
(* The 365-day download of the bot                                         *)
(***************************************************************************)
\* how many hours the clock is followed
MaxHours == 30

\* ClimateDataDownloader.fetch_wind_data_only: the provider's hourly rows
\* of the days start_date..end_date whose hour of the day is within
\* [start_hour, end_hour]; the timestamps of the rows retained
retained_rows(w) ==
  {h \in (w.start_date * 24)..(w.end_date * 24 + 23) :
     HourOf(h) >= w.start_hour /\ HourOf(h) <= w.end_hour}

\* an hour passes
Tick ==
  /\ clock < Clock0 + MaxHours
  /\ clock' = clock + 1
  /\ UNCHANGED <<csv, op, latest, sessionVars, fsVars, chatVars, bootVars, plotVars,
                 dispatchVars, raceVars, welcomeVars>>

\* a router match or a municipality button: the window is computed from
\* the clock and the download keeps the rows of its hours
DownloadWindow ==
  /\ LET w == Window(datetime_now) IN
     op' = [ name |-> "download_single_city", status |-> 0,
             out |-> <<[ at |-> datetime_now, window |-> w,
                         hours |-> {HourOf(h) : h \in retained_rows(w)},
                         rows |-> Cardinality(retained_rows(w)) ]>>,
             overlap |-> FALSE, cities |-> <<>> ]
  /\ UNCHANGED <<clock, csv, latest, sessionVars, fsVars, chatVars, bootVars, plotVars,
                 dispatchVars, raceVars, welcomeVars>>

NextWindow ==
  \/ Tick
  \/ DownloadWindow

(***************************************************************************)
(* The single-dataset analysis bot: /start and greetings                   *)
(*                                                                         *)
(* tests/test_TelegramPandasAgent.py (start, on_message) and               *)
(* tests/TelegramBotOrganized.py (handle_start, handle_message) keep one   *)
(* welcomed flag per chat id and run the same statements on it.            *)
(***************************************************************************)
\* how many updates the analysis bot is followed for
MaxGreetings == 3

GreetingChats == {1, 2}

\* the characters str.maketrans("", "", ...) deletes
Punctuation == {"!", "?", ",", ".", ";", ":", "(", ")", "[", "]", "{", "}"}

\* " ".join(words): str.split() drops leading and trailing white space and
\* takes every run of white space as one separator
RECURSIVE split_join(_)
split_join(t) ==
  LET u == lstrip(t) IN
  IF u = <<>> THEN <<>>
  ELSE IF Len(u) > 1 /\ IsSpace(u[2]) /\ lstrip(Tail(u)) # <<>>
  THEN <<u[1], SP>> \o split_join(lstrip(Tail(u)))
  ELSE <<u[1]>> \o split_join(IF Len(u) > 1 /\ IsSpace(u[2]) THEN <<>> ELSE Tail(u))

\* normalize_text: lower case, stripped, punctuation deleted, white space
\* collapsed
normalize_text(text) ==
  split_join(SelectSeq(strip(lower(text)), LAMBDA c : c.b \notin Punctuation))

GREETINGS ==
  { hola, Str(<<"h","e","l","l","o">>), Str(<<"h","i">>), Str(<<"h","e","y">>),
    Str(<<"b","u","e","n","a","s">>),
    Str(<<"b","u","e","n","o","s"," ","d","i","a","s">>),
    Accent(Str(<<"b","u","e","n","o","s"," ","d","i","a","s">>), 9),
    Str(<<"b","u","e","n","a","s"," ","t","a","r","d","e","s">>),
    Str(<<"b","u","e","n","a","s"," ","n","o","c","h","e","s">>) }

\* get_state: CHAT_STATE.setdefault(chat_id, {"welcomed": False})
get_state(chat_id) ==
  IF chat_id \in DOMAIN chat_state THEN chat_state[chat_id] ELSE [welcomed |-> FALSE]

\* CHAT_STATE after a handler that ran get_state(chat_id) and left the
\* chat's state at st
PutState(chat_id, st) ==
  [c \in (DOMAIN chat_state) \cup {chat_id} |-> IF c = chat_id THEN st ELSE chat_state[c]]

\* a /start that welcomes every time
handle_start_always(state) ==
  [state |-> [state EXCEPT !.welcomed = TRUE], reply |-> "welcome"]

\* start / handle_start on the chat's state: the state it leaves and the
\* message it sends
handle_start(state) ==
  IF ~state.welcomed
  THEN [state |-> [state EXCEPT !.welcomed = TRUE], reply |-> "welcome"]
  ELSE [state |-> state, reply |-> "none"]

\* the greeting branch of on_message / handle_message
on_greeting(state) ==
  IF ~state.welcomed
  THEN [state |-> [state EXCEPT !.welcomed = TRUE], reply |-> "welcome"]
  ELSE [state |-> state, reply |-> "prompt"]

\* the texts sent to the analysis bot
GreetingTexts ==
  { hola, Cap(hola) \o <<Ch("!")>>, <<SP>> \o Upper(Str(<<"h","i">>)) \o <<SP>>,
    Str(<<"b","u","e","n","o","s"," "," ","d","i","a","s">>),
    hola \o <<SP>> \o riohacha, <<SP, SP>> }

\* what reaches the chat of a message the handler awaited: the message, or
\* nothing when the send raised
Delivered(reply) == IF reply = "none" THEN {"none"} ELSE {reply, "failed"}

WelcomeInit ==
  /\ chat_state = <<>>
  /\ greeted = <<>>

\* /start in chat c
Start(c) ==
  /\ Len(greeted) < MaxGreetings
  /\ LET o == handle_start(get_state(c)) IN
     /\ chat_state' = PutState(c, o.state)
     /\ \E d \in Delivered(o.reply) :
          greeted' = Append(greeted, [chat |-> c, update |-> "start", reply |-> d])
  /\ UNCHANGED <<sessionVars, dataVars, fsVars, chatVars, bootVars, plotVars, dispatchVars, raceVars>>

\* a text message in chat c: an empty text is dropped, a greeting is
\* answered from the chat's state, anything else goes to the agent and
\* leaves CHAT_STATE alone
OnMessage(c) ==
  /\ Len(greeted) < MaxGreetings
  /\ \E t \in GreetingTexts :
       LET text == strip(t) IN
       IF text = <<>>
       THEN /\ chat_state' = chat_state
            /\ greeted' = Append(greeted, [chat |-> c, update |-> "empty", reply |-> "none"])
       ELSE IF normalize_text(text) \in GREETINGS
       THEN LET o == on_greeting(get_state(c)) IN
            /\ chat_state' = PutState(c, o.state)
            /\ \E d \in Delivered(o.reply) :
                 greeted' = Append(greeted, [chat |-> c, update |-> "greeting", reply |-> d])
       ELSE /\ chat_state' = chat_state
            /\ \E d \in Delivered("answer") :
                 greeted' = Append(greeted, [chat |-> c, update |-> "question", reply |-> d])
  /\ UNCHANGED <<sessionVars, dataVars, fsVars, chatVars, bootVars, plotVars, dispatchVars, raceVars>>

NextWelcome ==
  \/ \E c \in GreetingChats : Start(c)
  \/ \E c \in GreetingChats : OnMessage(c)

(***************************************************************************)
(* The session state machine                                               *)
(***************************************************************************)
\* raw is the router chain's output as the LLM gave it (None if the
\* router was not run or failed), route what the handler made of it, dl
\* what the download of the turn returned
Turn(kind, u, text, pre, o) ==
  [ kind |-> kind, user |-> u, text |-> text, pre |-> pre,
    route |-> o.route, raw |-> o.raw, dl |-> o.dl, fault |-> o.fault,
    calls |-> o.calls,
    replies |-> o.replies ]

SessionInit ==
  /\ user_states = <<>>
  /\ turn = [ kind |-> "init", user |-> 0, text |-> None, pre |-> UserState,
              route |-> None, raw |-> None, dl |-> NoDownload, fault |-> "",
              calls |-> <<>>,
              replies |-> <<>> ]

Init == SessionInit /\ DataInit /\ FsInit /\ ChatInit /\ BootInit /\ PlotInit /\ DispatchInit /\ RaceInit /\ WelcomeInit

\* a free-text message of user u
Message(u) ==
  \E text \in UserTexts :
    \E o \in handle_message(get_user_state(u), text, RouterOutputs) :
      /\ user_states' = Store(u, o.state)
      /\ turn' = Turn("message", u, text, get_user_state(u), o)
      /\ UNCHANGED <<dataVars, fsVars, chatVars, bootVars, plotVars, dispatchVars, raceVars, welcomeVars>>

\* /cambiar by user u
Cambiar(u) ==
  LET o == cambiar_command(get_user_state(u)) IN
  /\ user_states' = Store(u, o.state)
  /\ turn' = Turn("cambiar", u, None, get_user_state(u), o)
  /\ UNCHANGED <<dataVars, fsVars, chatVars, bootVars, plotVars, dispatchVars, raceVars, welcomeVars>>

\* user u presses a municipality button
Callback(u) ==
  \E data \in CallbackData :
    \E o \in municipio_callback(get_user_state(u), data) :
      /\ user_states' = Store(u, o.state)
      /\ turn' = Turn("callback", u, data, get_user_state(u), o)
      /\ UNCHANGED <<dataVars, fsVars, chatVars, bootVars, plotVars, dispatchVars, raceVars, welcomeVars>>

Next ==
  \/ \E u \in Users : Message(u)
  \/ \E u \in Users : Cambiar(u)
  \/ \E u \in Users : Callback(u)

Spec == Init /\ [][Next]_vars


NextData ==
  \/ DownloadSingle
  \/ DownloadBulk
  \/ UpdateHourly
  \/ ScheduledUpdate

SpecData == Init /\ [][NextData]_vars

SpecFs == Init /\ [][NextFs]_vars

SpecMemory == Init /\ [][NextMemory]_vars

SpecBoot == Init /\ [][NextBoot]_vars

SpecPlot == Init /\ [][NextPlot]_vars

SpecRefresh == Init /\ [][NextRefresh]_vars

SpecDispatch == Init /\ [][NextDispatch]_vars

SpecExtract == Init /\ [][NextExtract]_vars

SpecWindow == Init /\ [][NextWindow]_vars

SpecRace == Init /\ [][NextRace]_vars

SpecWelcome == Init /\ [][NextWelcome]_vars

(***************************************************************************)
(* Properties                                                              *)
(***************************************************************************)
Session(u) == user_states[u]

\* the free-text turn handled last ran the router and the router answered
RouterAnswered ==
  /\ turn.kind = "message"
  /\ turn.pre.current_municipio = None
  /\ turn.raw # None

\* the known municipality names, normalised
NormalisedNames == {strip_accents_lower(m) : m \in MunicipioSet}

\* the municipality whose normalised name is n
NameOf(n) == CHOOSE m \in MunicipioSet : strip_accents_lower(m) = n

\* C1: for an unbound session, whenever the router's reply, trimmed,
\* lower-cased and stripped of accents, is the name of a known municipality,
\* the turn ends with the session bound to that municipality.
C1_RouterMunicipalityBinds ==
  (RouterAnswered /\ strip_accents_lower(turn.raw) \in NormalisedNames)
    => Session(turn.user).current_municipio = NameOf(strip_accents_lower(turn.raw))

\* the text names municipality m, whatever the case of its letters
Mentions(text, m) == Contains(lower(text), lower(m))

\* the free-text turn handled last came from a session bound to m and its
\* text names another known municipality but not m
SwitchTurn ==
  /\ turn.kind = "message"
  /\ turn.pre.current_municipio # None
  /\ ~Mentions(turn.text, turn.pre.current_municipio)
  /\ \E m \in MunicipioSet : m # turn.pre.current_municipio /\ Mentions(turn.text, m)

C3_CambiarClearsSession ==
  turn.kind = "cambiar" => Session(turn.user) = UserState

\* /cambiar on a session that was bound with a dataset and an agent
C3_Witness ==
  /\ turn.kind = "cambiar"
  /\ turn.pre.current_municipio # None
  /\ turn.pre.current_dataframe # NoData
  /\ turn.pre.pandas_agent # NoAgent
  /\ Session(turn.user) = UserState

\* C4: after any sequence of dataset-writing operations every persisted
\* file holds at most one row per (municipality, timestamp).
C4_UniqueRowKeys ==
  \A f \in DOMAIN csv :
    \A i, j \in 1..Len(csv[f]) : i # j => RowKey(csv[f][i]) # RowKey(csv[f][j])

\* a download whose fetched rows overlapped the file it was merged into
C4_Witness ==
  /\ op.name \in {"download_single", "download_bulk"}
  /\ op.overlap
  /\ \E f \in DOMAIN csv : Len(csv[f]) > 1

\* C5: after any sequence of fetch-and-merge operations, every persisted
\* row whose key the last of them fetched carries the value of that fetch
\* (the rows of the other keys are carried over as they were).
C5_LatestFetchWins ==
  \A f \in DOMAIN csv :
    \A i \in 1..Len(csv[f]) :
      RowKey(csv[f][i]) \in DOMAIN latest
        => csv[f][i].val = latest[RowKey(csv[f][i])]

\* C6: an incremental pull whose archive or forecast request failed
\* returns normally, with zero new rows: no exception leaves it.
C6_FetchFailureIsAbsorbed ==
  op.name \in {"update_hourly", "scheduled_update"}
    => \A i \in 1..Len(op.out) :
         op.out[i].fetch_failed => (~op.out[i].raised /\ op.out[i].new_rows = 0)

\* C7: whatever the interleaving of the threads that save a city's file, a
\* reader of the final path never reads a partially written file.
C7_ReaderSeesCompleteFile ==
  (rd.done /\ rd.exists) => Complete(rd.content)

\* C8: for an unbound session, a router reply that is neither a known
\* municipality nor "general" leaves the session unbound and is relayed to
\* the user as the router gave it (surrounding blanks aside).
C8_ConversationalReplyVerbatim ==
  ( /\ RouterAnswered
    /\ strip_accents_lower(turn.raw) \notin NormalisedNames
    /\ strip_accents_lower(turn.raw) # general )
    => /\ Session(turn.user).current_municipio = None
       /\ \E i \in 1..Len(turn.replies) :
            /\ turn.replies[i].kind = "relay"
            /\ strip(turn.replies[i].text) = strip(turn.raw)

\* C9: for an unbound session, when the router's reply is the literal
\* "general" the session stays unbound and the user is asked to clarify,
\* with example municipalities: the word "general" itself is not what the
\* user receives.
C9_GeneralAsksForClarification ==
  (RouterAnswered /\ lower(strip(turn.raw)) = general)
    => /\ Session(turn.user).current_municipio = None
       /\ turn.replies # <<>>
       /\ \A i \in 1..Len(turn.replies) : turn.replies[i] # Reply("relay", general)

\* C10: in every reachable session state, an analysis agent, if present,
\* was built from the session's current dataset.
C10_AgentBuiltFromCurrentDataset ==
  \A u \in DOMAIN user_states :
    Session(u).pandas_agent # NoAgent
      => Session(u).pandas_agent.df = Session(u).current_dataframe

\* the session's path, summary and dataset, where present, are those of
\* municipality m
DataOf(st, m) ==
  /\ st.current_file_path # None => st.current_file_path = m
  /\ st.current_data_summary # NoData => st.current_data_summary.mun = m
  /\ st.current_dataframe # NoData => st.current_dataframe.mun = m

\* C11: in every reachable session state, a dataset path, summary or
\* dataset that is present was downloaded for the municipality the session
\* is bound to.
C11_DataBelongsToBoundMunicipality ==
  \A u \in DOMAIN user_states : DataOf(Session(u), Session(u).current_municipio)

\* the free-text turn handled last resolved a known municipality for an
\* unbound session and downloaded with the ClimateDataDownloader of the
\* sources, while the provider had data to return
ResolvedWithData ==
  /\ RouterAnswered
  /\ turn.route \in MunicipioSet
  /\ "data" \in DOMAIN turn.dl
  /\ turn.dl.data

\* C12: when the router resolves a known municipality for an unbound
\* session and the provider returns data, the download queries the provider
\* with the municipality's predefined coordinates and the turn ends with
\* the session's path, summary and dataset present.
C12_ResolvedMunicipalityLoadsData ==
  ResolvedWithData
    => /\ turn.dl.asked
       /\ Session(turn.user).current_file_path # None
       /\ Session(turn.user).current_data_summary # NoData
       /\ Session(turn.user).current_dataframe # NoData

\* the replies of the last turn that report an error
ErrorKinds == {"error", "plot_error", "analysis_error", "download_error"}
ErrorReplies == {i \in 1..Len(turn.replies) : turn.replies[i].kind \in ErrorKinds}

\* st is the session as the handler of the last turn had left it when the
\* collaborator raised
StateAtFailure(st) ==
  LET bound == [turn.pre EXCEPT !.current_municipio = turn.route] IN
  CASE turn.fault = "router" -> st = turn.pre
    [] turn.fault = "download" -> st = bound
    [] turn.fault = "subagent" /\ turn.pre.current_municipio = None ->
         \E csv_ok \in BOOLEAN, agent_ok \in BOOLEAN :
            st = LoadDownload(bound, turn.dl, csv_ok, agent_ok)
    [] OTHER -> st = turn.pre

\* C13: in a free-text turn in which the router, the download, the
\* subagent or the analysis agent raises, the handler still returns, the
\* user gets exactly one error reply, and the session is as it was when the
\* failure happened (what was assigned before it is kept).
C13_FailureGivesOneErrorReply ==
  (turn.kind = "message" /\ turn.fault \in {"router", "download", "subagent", "agent"})
    => /\ Cardinality(ErrorReplies) = 1
       /\ StateAtFailure(Session(turn.user))

\* the subagent raised in the turn that bound the session: the binding is
\* kept
C13_Witness ==
  /\ turn.kind = "message"
  /\ turn.fault = "subagent"
  /\ turn.pre.current_municipio = None
  /\ Session(turn.user).current_municipio = turn.route
  /\ Cardinality(ErrorReplies) = 1

\* the last update was a button callback whose identifier is not a known
\* municipality
InvalidCallback == turn.kind = "callback" /\ turn.text \notin MunicipioSet

\* C14: a button callback whose identifier is not a known municipality is
\* answered as invalid and changes no field of the user's session; nothing
\* is downloaded.
C14_InvalidCallbackChangesNothing ==
  InvalidCallback
    => /\ Session(turn.user) = turn.pre
       /\ turn.calls = <<>>
       /\ turn.replies = <<Reply("invalid", None)>>

\* an invalid callback received by a bound session
C14_Witness ==
  /\ InvalidCallback
  /\ turn.pre.current_municipio # None
  /\ Session(turn.user) = turn.pre
  /\ turn.replies = <<Reply("invalid", None)>>

\* the last update was a chart request served by the plot pipeline
PlotRequestTurn ==
  /\ turn.kind = "message"
  /\ turn.replies # <<>>
  /\ Head(turn.replies) = Reply("generating", None)

\* C15: when the extracted plotting code raises during a chart request, the
\* handler returns with one chart-specific error reply as its last reply
\* and the session is unchanged.
C15_PlotCodeFailureIsReported ==
  (PlotRequestTurn /\ turn.fault = "execute_plot_code")
    => /\ Session(turn.user) = turn.pre
       /\ ErrorReplies = {Len(turn.replies)}
       /\ turn.replies[Len(turn.replies)] = Reply("plot_error", None)

\* a chart request whose plotting code raised
C15_Witness ==
  /\ PlotRequestTurn
  /\ turn.fault = "execute_plot_code"
  /\ turn.calls[Len(turn.calls)] = Call("execute_plot_code", None)
  /\ Session(turn.user) = turn.pre

\* the entries of the incremental refreshes run by the last operation,
\* those of unknown cities left out
PullEntries ==
  IF op.name \in {"update_hourly", "scheduled_update"}
  THEN {op.out[i] : i \in {j \in 1..Len(op.out) : "fresh" \in DOMAIN op.out[j]}}
  ELSE {}

\* C16: every incremental refresh whose fetch succeeded reports a count of
\* new rows that is the merged row count minus the prior row count, is not
\* negative, and is the number of fetched keys the prior dataset did not
\* have.
C16_NewRowCount ==
  \A e \in PullEntries :
    ~e.fetch_failed
      => /\ ~e.raised
         /\ e.new_rows = e.merged - e.prior
         /\ e.new_rows >= 0
         /\ e.new_rows = e.fresh

\* an incremental pull that fetched, a second time, rows the dataset of
\* the city held already
SecondMerges == {e \in PullEntries : e.refetch}

\* C17: merging the same fetched rows into a city's dataset a second time
\* leaves the dataset as the first merge left it and reports zero new rows.
C17_SecondMergeIsIdempotent ==
  \A e \in SecondMerges : ~e.raised /\ e.kept /\ e.new_rows = 0


\* C18: a subagent run for municipality m is given the history of m's
\* memory and appends to m's memory only: the step leaves the memory of
\* every other municipality as it was.
C18_SubagentTouchesOwnMemoryOnly ==
  [][ chat'.called
        => /\ chat'.history = municipio_memories[chat'.mun]
           /\ \A m \in MunicipioSet \ {chat'.mun} :
                municipio_memories'[m] = municipio_memories[m]
           /\ \A i \in 1..Len(municipio_memories[chat'.mun]) :
                municipio_memories'[chat'.mun][i] = municipio_memories[chat'.mun][i]
    ]_vars

\* a subagent run that answered while another municipality's memory held
\* exchanges
C18_Witness ==
  /\ chat.called /\ chat.answered
  /\ municipio_memories[chat.mun] # <<>>
  /\ \E m \in MunicipioSet \ {chat.mun} : municipio_memories[m] # <<>>

\* C19: every exchange another user's subagent run saved for municipality
\* m is part of the history given to a user's subagent run for m.
C19_UsersShareSubagentHistory ==
  chat.called
    => \A e \in said :
         (e.mun = chat.mun /\ e.user # chat.user) => e \in Rows(chat.history)

\* a subagent run of one user whose history holds an exchange of another
C19_Witness ==
  /\ chat.called
  /\ \E e \in Rows(chat.history) : e.user # chat.user /\ e.mun = chat.mun


\* the process was started without the bot token or without the LLM key
MissingCredential ==
  /\ boot.pc # "off"
  /\ ~Truthy(env.token) \/ ~Truthy(env.api_key)

\* C20: a process started without a required credential registers no
\* handler and never polls for or serves updates.
C20_MissingCredentialNeverServes ==
  MissingCredential
    => /\ boot.handlers = <<>>
       /\ boot.pc # "polling"
       /\ boot.served = <<>>

\* the free-text turn handled last came from a session bound to m and its
\* text names m
MentionsBoundTurn ==
  /\ turn.kind = "message"
  /\ turn.pre.current_municipio # None
  /\ Mentions(turn.text, turn.pre.current_municipio)

\* C22: a free-text message to a session bound to m that names m itself,
\* alone or together with another known municipality, is not treated as a
\* switch: the session stays bound to m with its data, and the message is
\* handled as a normal turn of a bound session.
C22_MentionOfBoundIsNoSwitch ==
  MentionsBoundTurn
    => /\ Session(turn.user) = turn.pre
       /\ \A i \in 1..Len(turn.replies) : turn.replies[i].kind # "switch_detected"

\* the free-text turn handled last ran the router, which resolved a known
\* municipality
ResolvedTurn == RouterAnswered /\ turn.route \in MunicipioSet

\* the subagent runs of the last turn
SubagentRuns == {i \in 1..Len(turn.calls) : turn.calls[i].fn = "subagent"}

BoundTurn ==
  /\ turn.kind = "message"
  /\ turn.pre.current_municipio # None
  /\ strip(turn.text) # <<>>
  /\ ~(turn.replies # <<>> /\ Head(turn.replies).kind = "switch_detected")

\* the path the last turn took
PlotPath == turn.replies # <<>> /\ Head(turn.replies) = Reply("generating", None)
AnalysisPath == turn.replies # <<>> /\ Head(turn.replies) = Reply("analyzing", None)
SubagentPath == turn.calls # <<>> /\ Head(turn.calls).fn = "subagent"

\* the fn of the calls of the last turn
CallFns == {turn.calls[i].fn : i \in 1..Len(turn.calls)}

\* the session the last turn started from held a dataset and an agent
HadDataAndAgent ==
  turn.pre.current_dataframe # NoData /\ turn.pre.pandas_agent # NoAgent

\* C24: a message to a bound session that is not a switch takes exactly one
\* path: the plot pipeline iff dataset and agent are present and the text
\* asks for a chart, the analysis agent iff both are present and it does
\* not, the municipality's subagent iff the dataset or the agent is absent.
C24_OnePathPerBoundMessage ==
  BoundTurn
    => /\ PlotPath <=> (HadDataAndAgent /\ is_plot_request(strip(turn.text)))
       /\ AnalysisPath <=> (HadDataAndAgent /\ ~is_plot_request(strip(turn.text)))
       /\ SubagentPath <=> ~HadDataAndAgent
       /\ SubagentPath => CallFns = {"subagent"}
       /\ (PlotPath \/ AnalysisPath) => "subagent" \notin CallFns /\ "agent" \in CallFns
       /\ "router" \notin CallFns /\ "download" \notin CallFns

\* a chart request to a session that holds a dataset but no agent goes to
\* the subagent
C24_Witness ==
  /\ BoundTurn
  /\ turn.pre.current_dataframe # NoData
  /\ turn.pre.pandas_agent = NoAgent
  /\ is_plot_request(strip(turn.text))
  /\ SubagentPath

\* the runs of the analysis agent in the last turn, and the first of them
AgentRuns == {i \in 1..Len(turn.calls) : turn.calls[i].fn = "agent"}
FirstAnswer == turn.calls[1].arg

\* find_recent_plots found an artifact in the last turn
ArtifactFound ==
  \E i \in 1..Len(turn.calls) :
     turn.calls[i].fn = "find_recent_plots" /\ turn.calls[i].arg

\* C25: in one plot-request turn the analysis agent is run once or twice,
\* never a third time, and a second time only when the first answer gave
\* neither a recent image artifact nor extractable plotting code.
C25_AtMostOneReprompt ==
  PlotRequestTurn
    => /\ Cardinality(AgentRuns) \in {1, 2}
       /\ 1 \in AgentRuns
       /\ Cardinality(AgentRuns) = 2
            => /\ ~FirstAnswer.exc
               /\ ~FirstAnswer.code
               /\ ~ArtifactFound
               /\ \A i \in 1..Len(turn.calls) :
                    turn.calls[i].fn = "execute_plot_code" => \A j \in AgentRuns : j < i

\* the first answer said a chart was saved, no recent file was found, it
\* held no code, and the agent was asked a second time
C25_Witness ==
  /\ PlotRequestTurn
  /\ Cardinality(AgentRuns) = 2
  /\ FirstAnswer.ind
  /\ \E i \in 1..Len(turn.calls) : turn.calls[i] = CallWith("find_recent_plots", None, FALSE)

\* C26: find_recent_plots returns only image files that were modified
\* within the 30 seconds before the call, however old the other files are.
C26_RecentPlotsAreRecent ==
  plot_op.name = "find_recent_plots"
    => \A f \in plot_op.found :
         /\ f.ext = "png"
         /\ plot_time.now - plot_files[f] >= 0
         /\ plot_time.now - plot_files[f] < 30

\* C27: when execute_plot_code succeeds, the path it returns names a file
\* that this execution wrote, whether the save call was appended or was the
\* code's own.
C27_ReturnedPathWasWritten ==
  (plot_op.name = "execute_plot_code" /\ plot_op.ok)
    => /\ plot_op.path \in plot_op.written
       /\ plot_op.path \in DOMAIN plot_files
       /\ plot_files[plot_op.path] = plot_time.now

\* C28 (as stated): the archive is queried if and only if the start date
\* is strictly before yesterday.
C28_ArchiveOnlyBeforeYesterday ==
  \A e \in PullEntries :
    e.archive.called <=> e.window.start_date < e.window.yesterday

\* C28 (amended): the archive is queried if and only if the start date is
\* yesterday or earlier, and then from the start date up to yesterday; from
\* today on it is skipped.
C28_ArchiveUpToYesterday ==
  \A e \in PullEntries :
    /\ e.archive.called <=> e.window.start_date <= e.window.yesterday
    /\ e.archive.called
         => /\ e.archive.start_date = e.window.start_date
            /\ e.archive.end_date = e.window.yesterday

C28_Witness ==
  \E e \in PullEntries :
    /\ e.window.start_date = e.window.yesterday
    /\ e.archive.called
    /\ \E d \in PullEntries : ~d.archive.called

\* C29: the accepted range starts one hour after the latest timestamp of a
\* non-empty prior dataset, and on the day a week before now for an empty one.
C29_RangeStartsAfterLatest ==
  \A e \in PullEntries :
    IF e.window.last_ts = NoTs
    THEN DateOf(e.window.start_dt) = DateOf(e.window.target_until - 7 * 24)
    ELSE e.window.start_dt = e.window.last_ts + 1

DuplicateDownload ==
  \E i \in DOMAIN tasks, j \in DOMAIN tasks :
    /\ i # j
    /\ tasks[i].user = tasks[j].user
    /\ tasks[i].kind = "text" /\ tasks[j].kind = "text"
    /\ j \in tasks[i].with
    /\ tasks[i].saw_unbound /\ tasks[j].saw_unbound
    /\ tasks[i].dl /\ tasks[j].dl

\* C21 (as stated): a free-text turn that arrives while a turn of the same
\* user is in flight is handled concurrently with it: the dispatcher can
\* start it while the first one stands at an await.
C21_RapidTurnsRunConcurrently ==
  (/\ update_queue # <<>>
   /\ Head(update_queue).kind = "text"
   /\ \E i \in InFlight : /\ tasks[i].kind = "text"
                          /\ tasks[i].user = Head(update_queue).user)
    => CanDispatch

\* C21 (amended): turns are handled one at a time, so no two turns of a
\* user are ever in flight together and the duplicate download never
\* happens; a turn that arrived behind another starts after it has returned.
C21_TurnsOneAtATime ==
  /\ Cardinality(InFlight) <= 1
  /\ \A i \in DOMAIN tasks : tasks[i].with = {}
  /\ ~DuplicateDownload

\* two rapid messages of a user: the second arrived while the first was in
\* flight; the first found the session unbound and downloaded, the second
\* found it bound and did not
C21_Witness ==
  \E i \in DOMAIN tasks, j \in DOMAIN tasks :
    /\ i < j
    /\ tasks[i].user = tasks[j].user
    /\ tasks[i].kind = "text" /\ tasks[j].kind = "text"
    /\ tasks[j].behind
    /\ tasks[i].saw_unbound /\ tasks[i].dl
    /\ tasks[j].pc = "done"
    /\ ~tasks[j].saw_unbound /\ ~tasks[j].dl

\* the fences of a response, in order
FencePositions(response) == {i \in 1..Len(response) : response[i] = "fence"}

NthFence(response, n) ==
  CHOOSE i \in FencePositions(response) :
    Cardinality({j \in FencePositions(response) : j <= i}) = n

\* the fenced blocks of a response: the fences pair up in order; a block
\* is tagged when "python" follows its opening fence; its inner code is
\* what lies between the fences, the tag and the surrounding white space
\* left out
FencedBlocks(response) ==
  { LET a == NthFence(response, 2 * k - 1)
        b == NthFence(response, 2 * k)
        tagged == a + 1 < b /\ response[a + 1] = "python"
    IN  [ tagged |-> tagged,
          code |-> strip_ws(SubSeq(response, IF tagged THEN a + 2 ELSE a + 1, b - 1)) ]
    : k \in 1..(Cardinality(FencePositions(response)) \div 2) }

PlotBlocks(response, tagged) ==
  {b \in FencedBlocks(response) : b.tagged = tagged /\ uses_plot_library(b.code)}

\* C31: extract_code returns the inner code of a tagged block that uses a
\* plotting library when the response has one, else that of an untagged
\* block that uses one when the response has one, else the empty string.
C31_ExtractsPlotBlock ==
  plot_op.name = "extract_code"
    => LET r == plot_op.response IN
       IF PlotBlocks(r, TRUE) # {}
       THEN plot_op.code \in {b.code : b \in PlotBlocks(r, TRUE)}
       ELSE IF PlotBlocks(r, FALSE) # {}
       THEN plot_op.code \in {b.code : b \in PlotBlocks(r, FALSE)}
       ELSE plot_op.code = <<>>

\* C32: on the 365-day download path the window of hours is
\* [start.hour, end.hour] with start = end - 365 days: both are the hour of
\* the clock at the request, and every row retained has that hour.
C32_WindowIsTheClockHour ==
  op.name = "download_single_city"
    => LET o == op.out[1] IN
       /\ o.window.start_hour = o.window.end_hour
       /\ o.window.end_date - o.window.start_date = 365
       /\ o.window.end_hour = HourOf(o.at)
       /\ o.hours \subseteq {HourOf(o.at)}

\* a download in the afternoon that retained one row a day, all of 15:00
C32_Witness ==
  /\ op.name = "download_single_city"
  /\ HourOf(op.out[1].at) = 15
  /\ op.out[1].window.start_hour = 15
  /\ op.out[1].hours = {15}
  /\ op.out[1].rows = 366

\* C33: whatever free texts, commands and button callbacks were handled one
\* after the other, a session without a bound municipality has no summary,
\* no path, no dataset and no analysis agent.
C33_UnboundSessionIsEmpty ==
  \A u \in DOMAIN user_states :
    user_states[u].current_municipio = None
      => /\ user_states[u].current_data_summary = NoData
         /\ user_states[u].current_file_path = None
         /\ user_states[u].current_dataframe = NoData
         /\ user_states[u].pandas_agent = NoAgent

\* a session that held summary, path, dataset and agent and is now unbound
C33_Witness ==
  /\ turn.user \in DOMAIN user_states
  /\ turn.pre.current_municipio # None
  /\ turn.pre.current_data_summary # NoData
  /\ turn.pre.current_file_path # None
  /\ turn.pre.current_dataframe # NoData
  /\ turn.pre.pandas_agent # NoAgent
  /\ Session(turn.user).current_municipio = None

\* the users whose handler ran in the step: the one whose coroutine was
\* started or resumed
ActingUsers ==
  {tasks'[i].user : i \in {j \in DOMAIN tasks' :
                             j \notin DOMAIN tasks \/ tasks'[j].pc # tasks[j].pc}}

\* C35: a handler invocation for a user never creates or changes the
\* session stored for another user.
C35_OtherSessionsUntouched ==
  [][\A u \in DOMAIN user_states' :
       (u \notin DOMAIN user_states \/ user_states'[u] # user_states[u])
         => u \in ActingUsers]_vars

\* both users have a session, the first bound with a dataset, the second
\* unbound after a handler of its own
C35_Witness ==
  /\ DOMAIN user_states = {1, 2}
  /\ user_states[1].current_municipio # None
  /\ user_states[1].current_dataframe # NoData
  /\ user_states[2].current_municipio = None
  /\ \E i \in DOMAIN tasks : tasks[i].user = 2 /\ tasks[i].pc = "done"
  /\ \E i \in DOMAIN tasks : tasks[i].user = 1 /\ tasks[i].kind = "callback"

\* C34: once every operation has completed, every (municipality,
\* timestamp) row that some operation persisted is in the municipality's
\* file.
C34_NoLostUpdate ==
  (\A i \in DOMAIN race : race[i].pc = "done")
    => \A i \in DOMAIN race : \A k \in race[i].persisted :
         k \in Keys(load_existing(csv, k[1]))

\* C36: the router has one history for the whole process: a router run of
\* any user is given every exchange routed so far, whoever asked it, an
\* answered run adds its exchange to it, and no step (a /cambiar or a
\* detected switch among them) removes an exchange from it.
C36_RouterHistoryIsProcessWide ==
  [][ /\ Len(router_memory') >= Len(router_memory)
      /\ SubSeq(router_memory', 1, Len(router_memory)) = router_memory
      /\ router_run'.called
           => /\ router_run'.history = router_memory
              /\ router_run'.answered
                   => router_memory' =
                        Append(router_memory,
                               Routed(router_run'.user, router_run'.question,
                                      router_run'.answer))
    ]_vars

\* a router run of one user whose history holds an exchange that routed
\* another user to a municipality, after that user's session was reset
C36_Witness ==
  /\ router_run.called
  /\ \E e \in Rows(router_run.history) :
       /\ e.user # router_run.user
       /\ e.answer \in MunicipioSet
       /\ e.user \in DOMAIN user_states
       /\ user_states[e.user].current_municipio = None

\* the welcome messages that reached chat c
Welcomes(log, c) ==
  {i \in 1..Len(log) : log[i].chat = c /\ log[i].reply = "welcome"}

\* C37: in the analysis bot, over any sequence of /start commands and
\* greetings, a chat is sent at most one welcome message and its welcomed
\* flag, once true, stays true.
C37_WelcomedOnce ==
  [][ /\ \A c \in GreetingChats : Cardinality(Welcomes(greeted', c)) <= 1
      /\ \A c \in DOMAIN chat_state :
           chat_state[c].welcomed
             => c \in DOMAIN chat_state' /\ chat_state'[c].welcomed
    ]_vars

\* a chat that was welcomed and then sent /start and a greeting again
C37_Witness ==
  \E c \in DOMAIN chat_state :
    /\ chat_state[c].welcomed
    /\ Len(greeted) = 3
    /\ greeted[1] = [chat |-> c, update |-> "greeting", reply |-> "welcome"]
    /\ greeted[2] = [chat |-> c, update |-> "start", reply |-> "none"]
    /\ greeted[3] = [chat |-> c, update |-> "greeting", reply |-> "prompt"]

\* the entry of a city whose own processing failed: the pull raised or the
\* fetch of the download failed
EntryFailed(e) == e.raised \/ e.fetch_failed

\* C38: /update/hourly and /download/bulk return exactly one entry per
\* requested city, in order; the entry is unsuccessful exactly when the
\* city is unknown or its own processing failed, whatever happened to the
\* other cities.
C38_OneEntryPerCity ==
  op.name \in {"update_hourly", "download_bulk"}
    => /\ Len(op.out) = Len(op.cities)
       /\ \A i \in 1..Len(op.out) :
            /\ op.out[i].city = parse_city(op.cities[i])
            /\ op.out[i].success
                 <=> /\ parse_city(op.cities[i]) \in API_MUNICIPIOS
                     /\ ~EntryFailed(op.out[i])

\* an update of every city in which the first city failed and the second
\* succeeded
C38_Witness ==
  /\ op.name = "update_hourly"
  /\ Len(op.cities) = 2
  /\ Len(op.out) = 2
  /\ ~op.out[1].success /\ EntryFailed(op.out[1])
  /\ op.out[2].success


=============================================================================
